---- MODULE Spec2Model ----
(***************************************************************************)
(* State-machine model of the speechart automaton family                   *)
(* (language_dfas.py, dfa.py) and of the LanguageParser JSON caches        *)
(* (language_parser.py).                                                   *)
(*                                                                         *)
(* Python None is written NoPos when it is a part of speech and NoColour   *)
(* (the empty tuple) when it is a colour.  A Python exception is the       *)
(* field raised = TRUE of the object record: every later statement of the  *)
(* handler is skipped and the assignments made before the raise are kept.  *)
(***************************************************************************)
EXTENDS Integers, Sequences, FiniteSets, TLC

VARIABLES
  variant,        \* which automaton class the object is an instance of
  states,         \* self.states
  start_states,   \* self.start_states
  start_labels,   \* PhraseDFA.start_labels
  success_states, \* self.success_states : state -> set of parts of speech
  state_colours,  \* self.state_colours (dfa.py: self.success_colours)
  transitions,    \* self.transitions : (state, symbol) -> state
  current_state,  \* self.current_state
  last,           \* history: the last call, its arguments and its outcome (steps: the
                  \* transitions a phrase fold made, in order)
  allocated,      \* history: every id new_state() returned since construction
  alloc_since,    \* history: every id new_state() returned since the last clear()
  symbols,        \* history: number of symbols handed to insertions since clear()
  pos_seq,        \* history (SpecBlend): parts of speech added to state 0, in order
  nops,           \* number of calls made so far (bounds the run)
  lang_ipas,          \* self.langs_ipas[language] : word -> list
  lang_etymologies,   \* self.langs_etymologies[language] : word -> list
  lang_inflections,   \* self.langs_inflections[language] : inflection -> list
  first_seen,         \* history (SpecCache): cache -> key -> values in first-seen order
  ncache,             \* number of cache additions made so far (bounds the run)
  lang_poses,         \* self.langs_pos[language] : word -> list
  lang_declensions,   \* self.langs_declensions[language] : word -> table
  fn_op,              \* the function or method applied last ("none" before any)
  fn_in,              \* its arguments
  fn_out,             \* what it returned
  etymologies,        \* compress_etymologies: the argument
  compressed,         \* compress_etymologies: the dictionary being built
  comp_word,          \* compress_etymologies: the word of the outer loop
  morphemes,          \* compress_etymologies: the list being rewritten
  pc,                 \* compress_etymologies: position in the method
  phoneme_dict,       \* IPAParser.phoneme_dict : letters -> set of IPA phonemes
  LEXICA,             \* LanguageParser.LEXICA : language -> lexicon (class attribute)
  ALPHABETS,          \* LanguageParser.ALPHABETS : language -> alphabet (class attribute)
  corpus,             \* the lines of the frequency-word file of the coded language
  ipas_json,          \* ipas.json: the file's dictionary of the language
  parsers,            \* the LanguageParser objects alive: id -> its lang_ipas
  ipa_words,          \* the IPAWord objects constructed so far, in construction order
  written             \* history: the words whose entries parser.add_phoneme_entry
                      \* received, in order

dfa_vars == <<variant, states, start_states, start_labels, success_states,
              state_colours, transitions, current_state, last, allocated,
              alloc_since, symbols, nops>>
cache_vars == <<lang_ipas, lang_etymologies, lang_inflections, first_seen, ncache>>
call_vars == <<fn_op, fn_in, fn_out>>
compress_vars == <<etymologies, compressed, comp_word, morphemes, pc>>
lexicon_vars == <<LEXICA, ALPHABETS, corpus>>
share_vars == <<ipas_json, parsers>>
batch_vars == <<ipa_words, written>>
misc_vars == <<share_vars, batch_vars>>
fn_vars == <<lang_poses, lang_declensions, call_vars, compress_vars, phoneme_dict,
             lexicon_vars, misc_vars>>
vars == <<dfa_vars, pos_seq, cache_vars, fn_vars>>

----------------------------------------------------------------------------
(* Bounds *)
MaxOps == 3
MaxLen == 3
MaxRepeat == 4
MaxBlend == 3
MaxCacheOps == 3
MaxEtymLen == 2
MaxMorphemes == 4
MaxIpaLen == 3
MaxDerivLen == 2
MaxLines == 4
MaxHeaders == 2
MaxLexicon == 3
MaxPhonemes == 3
MaxBatch == 3
MaxRows == 2
MaxAffixWord == 4

----------------------------------------------------------------------------
(* Generic helpers *)
Max(a, b) == IF a >= b THEN a ELSE b
Min(a, b) == IF a <= b THEN a ELSE b
EmptyMap == [x \in {} |-> 0]
Put(f, k, v) == [x \in (DOMAIN f) \cup {k} |-> IF x = k THEN v ELSE f[x]]
Range(s) == {s[i] : i \in DOMAIN s}

----------------------------------------------------------------------------
(* Symbols.  "a"/"A" are a letter in both cases, "." is punctuation (and   *)
(* the IPA syllable mark), "(" opens an IPA parenthetical.                 *)
Alphabet == {"a", "A", "."}
WordList == {<<>>, <<"a">>, <<".", "a">>, <<"a", "A", "a">>, <<"a", ".", "A", ".">>}
Words == {w \in WordList : Len(w) <= MaxLen}

NoPos == "None"
NoColour == <<>>
PosInputs == {NoPos, "v", "Adverb"}
WordPos == {NoPos, "v"}

Lower(c) == IF c = "A" THEN "a" ELSE c
InPunctuation(c) == c \in {".", "("}
StressMarks == {"primary-stress", "secondary-stress", "."}

Variants == {"dfa.MorphemeDFA", "LanguageDFA", "PhonemeDFA", "PhraseDFA"}
LaterVariants == {"LanguageDFA", "PhonemeDFA", "PhraseDFA"}

----------------------------------------------------------------------------
(* Palettes *)
POS_KEY == [Noun |-> "n", Verb |-> "v", Adjective |-> "a", Adverb |-> "r"]

POS_RGB == [v |-> <<225, 0, 0, 125>>,
            n |-> <<0, 225, 0, 125>>,
            a |-> <<0, 0, 200, 125>>,
            s |-> <<0, 0, 200, 125>>,
            r |-> <<175, 0, 175, 125>>,
            o |-> <<0, 175, 175, 125>>]

POS_ADDS == [n |-> <<0, 225, 0, 125>>,
             v |-> <<250, 0, 0, 125>>,
             a |-> <<0, 0, 200, 125>>,
             s |-> <<0, 0, 200, 125>>,
             r |-> <<175, 0, 175, 125>>,
             o |-> <<0, 175, 175, 125>>]

pos_rgb(pos) ==
  IF pos = NoPos THEN NoColour
  ELSE IF pos \in DOMAIN POS_RGB THEN POS_RGB[pos]
  ELSE IF pos \in DOMAIN POS_KEY THEN POS_RGB[POS_KEY[pos]]
  ELSE POS_RGB["o"]

pos_add(pos) ==
  IF pos \in DOMAIN POS_ADDS THEN POS_ADDS[pos]
  ELSE IF pos \in DOMAIN POS_KEY THEN POS_ADDS[POS_KEY[pos]]
  ELSE POS_ADDS["o"]

avg_colour_unfloored(colour, pos_colour) ==
  [i \in 1..4 |-> Min(colour[i] + pos_colour[i], 225)]

avg_colour(colour, pos_colour) ==
  [i \in 1..4 |-> Max(100, Min(colour[i] + pos_colour[i], 225))]

----------------------------------------------------------------------------
(* The automaton object as a record; handlers are functions on it.         *)
Self ==
  [variant |-> variant, states |-> states, start_states |-> start_states,
   start_labels |-> start_labels, success_states |-> success_states,
   state_colours |-> state_colours, transitions |-> transitions,
   current_state |-> current_state,
   ret |-> 0, news |-> <<>>, marked |-> <<>>, steps |-> <<>>, raised |-> FALSE,
   stuck |-> FALSE]

new_state_reusing(d) ==
  LET state == Cardinality(d.states) - 1
  IN [d EXCEPT !.states = @ \cup {state}, !.ret = state, !.news = Append(@, state)]

new_state(d) ==
  LET state == Cardinality(d.states)
  IN [d EXCEPT !.states = @ \cup {state}, !.ret = state, !.news = Append(@, state)]

transition_unmemoized(d, state, char) ==
  LET n == new_state(d)
  IN [n EXCEPT !.transitions = Put(@, <<state, char>>, n.ret)]

transition_merging(d, state, char) ==
  IF <<state, char>> \in DOMAIN d.transitions
  THEN [d EXCEPT !.ret = d.transitions[<<state, char>>]]
  ELSE IF \E k \in DOMAIN d.transitions : k[2] = char
  THEN LET k == CHOOSE k \in DOMAIN d.transitions : k[2] = char
       IN [d EXCEPT !.transitions = Put(@, <<state, char>>, d.transitions[k]),
                    !.ret = d.transitions[k]]
  ELSE LET n == new_state(d)
       IN [n EXCEPT !.transitions = Put(@, <<state, char>>, n.ret)]

transition(d, state, char) ==
  IF <<state, char>> \in DOMAIN d.transitions
  THEN [d EXCEPT !.ret = d.transitions[<<state, char>>]]
  ELSE LET n == new_state(d)
       IN [n EXCEPT !.transitions = Put(@, <<state, char>>, n.ret)]

add_state_colour(d, state, pos) ==
  LET pos_colour == pos_rgb(pos)
  IN IF pos_colour = NoColour
     THEN [d EXCEPT !.state_colours = Put(@, state, NoColour)]
     ELSE LET colour == IF state \in DOMAIN d.state_colours
                        THEN d.state_colours[state] ELSE <<0, 0, 0, 0>>
          IN IF colour = NoColour
             THEN [d EXCEPT !.raised = TRUE]     \* None[i]: TypeError
             ELSE [d EXCEPT !.state_colours = Put(@, state, avg_colour(colour, pos_colour))]

add_success_colour(d, state, pos) ==
  LET colour == IF state \in DOMAIN d.state_colours
                THEN d.state_colours[state] ELSE <<0, 0, 0, 0>>
  IN [d EXCEPT !.state_colours = Put(@, state, avg_colour(colour, pos_add(pos)))]

add_success_state(d, state, pos) ==
  LET poses == IF state \in DOMAIN d.success_states THEN d.success_states[state] ELSE {}
      d1 == [d EXCEPT !.success_states = Put(@, state, poses \cup {pos}),
                      !.marked = Append(@, state)]
  IN IF d.variant = "dfa.MorphemeDFA"
     THEN add_success_colour(d1, state, pos)
     ELSE add_state_colour(d1, state, pos)

add_start_state_forgetful(d, state_num) == d

add_start_state(d, state_num) == [d EXCEPT !.start_states = @ \cup {state_num}]

add_start_label(d, label) == [d EXCEPT !.start_labels = @ \cup {label}]

----------------------------------------------------------------------------
(* Conversions applied to the input before it is folded *)
unicodize(text) == text     \* the inputs are unicode objects: returned unchanged

RECURSIVE remove_parens(_)
remove_parens(word) ==
  IF word = <<>> \/ Head(word) = "(" THEN <<>>
  ELSE <<Head(word)>> \o remove_parens(Tail(word))

clean_ipa(ipa) == SelectSeq(remove_parens(ipa), LAMBDA c : c \notin StressMarks)

lang_pos == [A |-> <<"n">>]

word_poses(word) ==
  IF word \in DOMAIN lang_pos THEN lang_pos[word]
  ELSE IF Lower(word) \in DOMAIN lang_pos THEN lang_pos[Lower(word)]
  ELSE <<>>

----------------------------------------------------------------------------
(* transition_all, one definition per class that defines it.               *)
(* d.ret carries curr_state through the fold.                              *)
RECURSIVE dfa_transition_all_threaded(_, _, _)
dfa_transition_all_threaded(d, state, chars) ==
  IF chars = <<>> THEN d
  ELSE LET d1 == transition(d, state, Head(chars))
       IN dfa_transition_all_threaded(d1, d1.ret, Tail(chars))

RECURSIVE dfa_transition_all(_, _, _)
dfa_transition_all(d, state, chars) ==
  IF chars = <<>> THEN d
  ELSE dfa_transition_all(transition(d, state, Head(chars)), state, Tail(chars))

RECURSIVE language_transition_all(_, _)
language_transition_all(d, chars) ==
  IF chars = <<>> THEN d
  ELSE LET d1 == transition(d, d.ret, Head(chars))
       IN IF d1.ret \in d1.start_states THEN d1
          ELSE language_transition_all(d1, Tail(chars))

RECURSIVE add_state_colours(_, _, _)
add_state_colours(d, state, poses) ==
  IF poses = <<>> \/ d.raised THEN d
  ELSE add_state_colours(add_state_colour(d, state, Head(poses)), state, Tail(poses))

RECURSIVE phrase_repeat_on_start_state(_, _, _, _, _)
phrase_repeat_on_start_state(d, state, phrase, i, fuel) ==
  IF fuel = 0 THEN [d EXCEPT !.stuck = TRUE]
  ELSE
    LET word == phrase[i]
        d0 == transition(d, d.ret, word)
        curr_state == d0.ret
        d1 == [d0 EXCEPT !.steps = Append(@, [i |-> i, word |-> word, from |-> d.ret,
                                               to |-> curr_state,
                                               start |-> curr_state \in d.start_states])]
        d2 == IF InPunctuation(word)
              THEN add_success_state(d1, state, NoPos)
              ELSE add_state_colours(d1, curr_state, word_poses(word))
    IN IF d2.raised THEN d2
       ELSE IF i = 1 THEN add_start_state(d2, curr_state)
       ELSE IF curr_state \in d2.start_states THEN [d2 EXCEPT !.ret = 0]
       ELSE d2

RECURSIVE phrase_repeat(_, _, _, _, _)
phrase_repeat(d, state, phrase, i, fuel) ==
  IF fuel = 0 THEN [d EXCEPT !.stuck = TRUE]
  ELSE
    LET word == phrase[i]
        d0 == transition(d, d.ret, word)
        curr_state == d0.ret
        d1 == [d0 EXCEPT !.steps = Append(@, [i |-> i, word |-> word, from |-> d.ret,
                                               to |-> curr_state,
                                               start |-> curr_state \in d.start_states])]
        d2 == IF InPunctuation(word)
              THEN add_success_state(d1, state, NoPos)
              ELSE add_state_colours(d1, curr_state, word_poses(word))
    IN IF d2.raised THEN d2
       ELSE IF i = 1 THEN add_start_state(d2, curr_state)
       ELSE IF Lower(word) \in d2.start_labels /\ curr_state \notin d2.start_states
            THEN phrase_repeat([add_start_state(d2, curr_state) EXCEPT !.ret = 0],
                               state, phrase, i, fuel - 1)
            ELSE d2

RECURSIVE phrase_transition_all(_, _, _, _)
phrase_transition_all(d, state, phrase, i) ==
  IF i > Len(phrase) \/ d.raised \/ d.stuck THEN d
  ELSE phrase_transition_all(phrase_repeat(d, state, phrase, i, MaxRepeat),
                             state, phrase, i + 1)

transition_all(d, state, chars) ==
  LET d0 == [d EXCEPT !.ret = state]
  IN CASE d.variant = "dfa.MorphemeDFA" -> dfa_transition_all(d0, state, chars)
       [] d.variant = "LanguageDFA" -> language_transition_all(d0, chars)
       [] d.variant = "PhonemeDFA" -> language_transition_all(d0, clean_ipa(chars))
       [] d.variant = "PhraseDFA" -> phrase_transition_all(d0, state, chars, 1)

----------------------------------------------------------------------------
(* Ingestion *)
add_word_pair(d, word, pos) ==
  LET d1 == transition_all(d, d.current_state, unicodize(word))
  IN IF d1.raised \/ d1.stuck THEN d1
     ELSE LET d2 == add_success_state([d1 EXCEPT !.current_state = d1.ret], d1.ret, pos)
          IN IF d2.raised THEN d2 ELSE [d2 EXCEPT !.current_state = 0]

add_word(d, word) == add_word_pair(d, word, NoPos)

RECURSIVE add_phrase_from(_, _, _, _)
add_phrase_from(d, phrase, i, factorial) ==
  IF i > Len(phrase) THEN d
  ELSE LET d1 == add_word(d, SubSeq(phrase, i, Len(phrase)))
       IN IF d1.raised \/ d1.stuck \/ ~factorial THEN d1
          ELSE add_phrase_from(d1, phrase, i + 1, factorial)

add_phrase(d, phrase, factorial) ==
  add_phrase_from(add_start_label(d, Lower(phrase[1])), phrase, 1, factorial)

clear(d) ==
  [d EXCEPT !.states = {0}, !.start_states = {0}, !.success_states = EmptyMap,
            !.state_colours = EmptyMap, !.transitions = EmptyMap]

----------------------------------------------------------------------------
(* Initial state: the object after __init__ *)
NoCall == [op |-> "init", word |-> <<>>, pos |-> NoPos, from |-> 0, ret |-> 0,
           news |-> <<>>, marked |-> <<>>, steps |-> <<>>, raised |-> FALSE,
           stuck |-> FALSE]

InitDFA ==
  /\ variant \in Variants
  /\ states = {0}
  /\ start_states = {0}
  /\ start_labels = {}
  /\ success_states = EmptyMap
  /\ state_colours = EmptyMap
  /\ transitions = EmptyMap
  /\ current_state = 0
  /\ last = NoCall
  /\ allocated = {}
  /\ alloc_since = {}
  /\ symbols = 0
  /\ nops = 0

InitCache ==
  /\ lang_ipas = EmptyMap
  /\ lang_etymologies = EmptyMap
  /\ lang_inflections = EmptyMap
  /\ first_seen = [c \in {"ipa", "etymology", "inflection"} |-> EmptyMap]
  /\ ncache = 0

NoFn ==
  /\ fn_op = "none"
  /\ fn_in = <<>>
  /\ fn_out = <<>>

NoLexicon ==
  /\ LEXICA = EmptyMap
  /\ ALPHABETS = EmptyMap
  /\ corpus = <<>>

NoMisc ==
  /\ ipas_json = EmptyMap
  /\ parsers = EmptyMap
  /\ ipa_words = <<>>
  /\ written = <<>>

NoCompress ==
  /\ etymologies = EmptyMap
  /\ compressed = EmptyMap
  /\ comp_word = "None"
  /\ morphemes = <<>>
  /\ pc = "idle"

InitFn ==
  /\ lang_poses = EmptyMap
  /\ lang_declensions = EmptyMap
  /\ NoFn
  /\ NoCompress
  /\ phoneme_dict = EmptyMap
  /\ NoLexicon
  /\ NoMisc

Init == InitDFA /\ pos_seq = <<>> /\ InitCache /\ InitFn

(* The object after a call: d is the object the handler left behind. *)
Commit(d, op, word, pos, from, nsyms) ==
  /\ variant' = variant
  /\ states' = d.states
  /\ start_states' = d.start_states
  /\ start_labels' = d.start_labels
  /\ success_states' = d.success_states
  /\ state_colours' = d.state_colours
  /\ transitions' = d.transitions
  /\ current_state' = d.current_state
  /\ last' = [op |-> op, word |-> word, pos |-> pos, from |-> from, ret |-> d.ret,
              news |-> d.news, marked |-> d.marked, steps |-> d.steps,
              raised |-> d.raised,
              stuck |-> d.stuck]
  /\ allocated' = allocated \cup Range(d.news)
  /\ alloc_since' = IF op = "clear" THEN {} ELSE alloc_since \cup Range(d.news)
  /\ symbols' = IF op = "clear" THEN 0 ELSE symbols + nsyms
  /\ nops' = nops + 1

Folded(word) == IF variant = "PhonemeDFA" THEN clean_ipa(unicodize(word)) ELSE unicodize(word)

Transition(state, char) ==
  /\ nops < MaxOps
  /\ Commit(transition(Self, state, char), "transition", <<char>>, NoPos, state, 1)
  /\ UNCHANGED <<pos_seq, cache_vars, fn_vars>>

AddSuccessState(state, pos) ==
  /\ nops < MaxOps
  /\ Commit([add_success_state(Self, state, pos) EXCEPT !.ret = state],
            "add_success_state", <<>>, pos, state, 0)
  /\ UNCHANGED <<pos_seq, cache_vars, fn_vars>>

AddWord(word) ==
  /\ nops < MaxOps
  /\ Commit(add_word(Self, word), "add_word", word, NoPos, current_state, Len(Folded(word)))
  /\ UNCHANGED <<pos_seq, cache_vars, fn_vars>>

AddWordPair(word, pos) ==
  /\ nops < MaxOps
  /\ Commit(add_word_pair(Self, word, pos), "add_word_pair", word, pos,
            current_state, Len(Folded(word)))
  /\ UNCHANGED <<pos_seq, cache_vars, fn_vars>>

AddPhrase(phrase, factorial) ==
  /\ nops < MaxOps
  /\ variant = "PhraseDFA"
  /\ LET n == Len(phrase)
     IN Commit(add_phrase(Self, phrase, factorial), "add_phrase", phrase, NoPos,
               current_state, IF factorial THEN (n * (n + 1)) \div 2 ELSE n)
  /\ UNCHANGED <<pos_seq, cache_vars, fn_vars>>

Clear ==
  /\ nops < MaxOps
  /\ Commit(clear(Self), "clear", <<>>, NoPos, current_state, 0)
  /\ UNCHANGED <<pos_seq, cache_vars, fn_vars>>

(* Ingestion of words, word pairs and phrases *)
Next ==
  \/ \E word \in Words : AddWord(word)
  \/ \E word \in Words, pos \in WordPos : AddWordPair(word, pos)
  \/ \E phrase \in Words \ {<<>>}, factorial \in BOOLEAN : AddPhrase(phrase, factorial)
  \/ Clear

Spec == Init /\ [][Next]_vars

(* Direct calls of transition_all on automata built by phrase ingestion *)
FoldStates == {s \in states : s <= 1}

TransitionAll(state, chars) ==
  /\ nops < MaxOps
  /\ Commit(transition_all(Self, state, chars), "transition_all", chars, NoPos, state,
            Len(Folded(chars)))
  /\ UNCHANGED <<pos_seq, cache_vars, fn_vars>>

NextFold ==
  \/ \E state \in FoldStates, chars \in Words : TransitionAll(state, chars)
  \/ \E phrase \in Words \ {<<>>} : AddPhrase(phrase, FALSE)

SpecFold == Init /\ [][NextFold]_vars

(* Direct calls of the state-level methods *)
NextCalls ==
  \/ \E state \in states, char \in Alphabet : Transition(state, char)
  \/ \E state \in states, pos \in PosInputs : AddSuccessState(state, pos)
  \/ Clear

SpecCalls == Init /\ [][NextCalls]_vars

(* Additions of parts of speech to one fresh state (state 0), in order *)
BlendPos == {"v", "n", "a", "s", "r", "o"}

BlendAdd(pos) ==
  /\ Len(pos_seq) < MaxBlend
  /\ Commit([add_success_state(Self, 0, pos) EXCEPT !.ret = 0],
            "add_success_state", <<>>, pos, 0, 0)
  /\ pos_seq' = Append(pos_seq, pos)
  /\ UNCHANGED <<cache_vars, fn_vars>>

NextBlend == \E pos \in BlendPos : BlendAdd(pos)

SpecBlend == Init /\ [][NextBlend]_vars

----------------------------------------------------------------------------
(* The JSON caches of one language (language_parser.py).  Words and IPA    *)
(* or etymology values are atoms; inflections and lemmas are character     *)
(* sequences, because add_inflection splits and strips them.               *)
NoValue == "None"
CacheWords == {"w", "u"}
CacheValues == {"x", "y", NoValue}
InflectionInputs == {<<"w">>, <<" ", "w">>, <<"w", "/", "u">>}
LemmaInputs == {<<"x">>, <<"y">>, <<"y", " ">>}
Lemmas == {<<"x">>, <<"y">>}

setdefault(dict, key) == IF key \in DOMAIN dict THEN dict[key] ELSE <<>>

RECURSIVE OrderedSetItems(_)
OrderedSetItems(items) ==
  IF items = <<>> THEN <<>>
  ELSE LET front == OrderedSetItems(SubSeq(items, 1, Len(items) - 1))
           x == items[Len(items)]
       IN IF x \in Range(front) THEN front ELSE Append(front, x)

RECURSIVE strip(_)
strip(text) ==
  IF text = <<>> THEN text
  ELSE IF Head(text) = " " THEN strip(Tail(text))
  ELSE IF text[Len(text)] = " " THEN strip(SubSeq(text, 1, Len(text) - 1))
  ELSE text

RECURSIVE split(_, _)
split(text, sep) ==
  IF \A i \in DOMAIN text : text[i] # sep THEN <<text>>
  ELSE LET i == CHOOSE i \in DOMAIN text :
                   text[i] = sep /\ \A j \in 1..(i - 1) : text[j] # sep
       IN <<SubSeq(text, 1, i - 1)>> \o split(SubSeq(text, i + 1, Len(text)), sep)

(* list(set(lemmas)): the elements of the set in the set's iteration      *)
(* order, which is some order of the values and not the insertion order.   *)
Orders == {o \in [1..Cardinality(Lemmas) -> Lemmas] : Range(o) = Lemmas}
list_set(lemmas, order) == SelectSeq(order, LAMBDA x : x \in Range(lemmas))

add_ipa(ipa_dict, word, ipa) ==
  LET ipas == setdefault(ipa_dict, word)
  IN IF ipa # NoValue
     THEN Put(ipa_dict, word, OrderedSetItems(Append(ipas, ipa)))
     ELSE Put(ipa_dict, word, ipas)

add_etymology(etym_dict, word, etymology) ==
  LET etyms == setdefault(etym_dict, word)
  IN IF etymology # NoValue
     THEN Put(etym_dict, word, OrderedSetItems(Append(etyms, etymology)))
     ELSE Put(etym_dict, word, etyms)

RECURSIVE add_subinflections(_, _, _, _)
add_subinflections(inflections, subs, lemma, order) ==
  IF subs = <<>> THEN inflections
  ELSE LET subinflection == strip(Head(subs))
           lemmas == Append(setdefault(inflections, subinflection), lemma)
       IN add_subinflections(Put(inflections, subinflection, list_set(lemmas, order)),
                             Tail(subs), lemma, order)

add_inflection(inflections, inflection, lemma, order) ==
  add_subinflections(inflections, split(strip(inflection), "/"), strip(lemma), order)

(* history: what a de-duplicating, insertion-ordered list would hold *)
RECURSIVE SeenAll(_, _, _)
SeenAll(seen, keys, value) ==
  IF keys = <<>> THEN seen
  ELSE LET old == setdefault(seen, Head(keys))
       IN SeenAll(Put(seen, Head(keys),
                      IF value = NoValue \/ value \in Range(old) THEN old
                      ELSE Append(old, value)),
                  Tail(keys), value)

StrippedKeys(inflection) ==
  LET subs == split(strip(inflection), "/") IN [i \in DOMAIN subs |-> strip(subs[i])]

AddIpa(word, ipa) ==
  /\ ncache < MaxCacheOps
  /\ lang_ipas' = add_ipa(lang_ipas, word, ipa)
  /\ first_seen' = [first_seen EXCEPT !.ipa = SeenAll(@, <<word>>, ipa)]
  /\ ncache' = ncache + 1
  /\ UNCHANGED <<dfa_vars, pos_seq, fn_vars, lang_etymologies, lang_inflections>>

AddEtymology(word, etymology) ==
  /\ ncache < MaxCacheOps
  /\ lang_etymologies' = add_etymology(lang_etymologies, word, etymology)
  /\ first_seen' = [first_seen EXCEPT !.etymology = SeenAll(@, <<word>>, etymology)]
  /\ ncache' = ncache + 1
  /\ UNCHANGED <<dfa_vars, pos_seq, fn_vars, lang_ipas, lang_inflections>>

AddInflection(inflection, lemma, order) ==
  /\ ncache < MaxCacheOps
  /\ lang_inflections' = add_inflection(lang_inflections, inflection, lemma, order)
  /\ first_seen' = [first_seen EXCEPT
                      !.inflection = SeenAll(@, StrippedKeys(inflection), strip(lemma))]
  /\ ncache' = ncache + 1
  /\ UNCHANGED <<dfa_vars, pos_seq, fn_vars, lang_ipas, lang_etymologies>>

NextCache ==
  \/ \E word \in CacheWords, ipa \in CacheValues : AddIpa(word, ipa)
  \/ \E word \in CacheWords, etymology \in CacheValues : AddEtymology(word, etymology)
  \/ \E inflection \in InflectionInputs, lemma \in LemmaInputs, order \in Orders :
        AddInflection(inflection, lemma, order)

SpecCache == Init /\ [][NextCache]_vars

----------------------------------------------------------------------------
(* Cache lookups of one language (language_parser.py).  fetch_lang_* hands  *)
(* out the language's dictionary (an empty one for a language not cached    *)
(* yet); the keys are words, here single letters so that Lower is           *)
(* str.lower.  None is NoValue where a string is expected and NoList where  *)
(* a list or a table is.                                                    *)
NoList == <<NoValue>>
LookupWords == {"A", "a", "b"}
LookupKeys == {"A", "a"}
LookupDicts ==
  {[k \in keys |-> <<k>>] : keys \in SUBSET LookupKeys}

lookup_word_ipas(word) ==
  IF word \in DOMAIN lang_ipas THEN lang_ipas[word]
  ELSE IF Lower(word) \in DOMAIN lang_ipas THEN lang_ipas[Lower(word)]
  ELSE <<>>

lookup_word_ipa(word) ==
  IF lookup_word_ipas(word) = <<>> THEN NoValue ELSE lookup_word_ipas(word)[1]

lookup_word_poses(word) ==
  IF word \in DOMAIN lang_poses THEN lang_poses[word]
  ELSE IF Lower(word) \in DOMAIN lang_poses THEN lang_poses[Lower(word)]
  ELSE <<>>

lookup_word_pos(word) ==
  IF lookup_word_poses(word) = <<>> THEN NoValue ELSE lookup_word_poses(word)[1]

lookup_inflection(inflection) ==
  IF inflection \in DOMAIN lang_inflections THEN lang_inflections[inflection]
  ELSE IF Lower(inflection) \in DOMAIN lang_inflections
       THEN lang_inflections[Lower(inflection)]
  ELSE <<>>

lookup_etymology(word) ==
  IF word \in DOMAIN lang_etymologies THEN lang_etymologies[word] ELSE NoList

lookup_declension(word) ==
  IF word \in DOMAIN lang_declensions THEN lang_declensions[word] ELSE NoList

InitLookup ==
  /\ InitDFA
  /\ variant = "LanguageDFA"
  /\ pos_seq = <<>>
  /\ lang_ipas \in LookupDicts
  /\ lang_etymologies \in LookupDicts
  /\ lang_inflections \in LookupDicts
  /\ lang_poses \in LookupDicts
  /\ lang_declensions \in LookupDicts
  /\ first_seen = [c \in {"ipa", "etymology", "inflection"} |-> EmptyMap]
  /\ ncache = 0
  /\ NoFn
  /\ NoCompress
  /\ phoneme_dict = EmptyMap
  /\ NoLexicon
  /\ NoMisc

Returned(op, args, out) ==
  /\ fn_op' = op
  /\ fn_in' = args
  /\ fn_out' = out

LookupFrame ==
  UNCHANGED <<dfa_vars, pos_seq, cache_vars, lang_poses, lang_declensions, compress_vars,
              phoneme_dict, lexicon_vars, misc_vars>>

LookupWordIpas(word) ==
  /\ Returned("lookup_word_ipas", word, lookup_word_ipas(word))
  /\ LookupFrame

LookupWordIpa(word) ==
  /\ Returned("lookup_word_ipa", word, lookup_word_ipa(word))
  /\ LookupFrame

LookupWordPoses(word) ==
  /\ Returned("lookup_word_poses", word, lookup_word_poses(word))
  /\ LookupFrame

LookupWordPos(word) ==
  /\ Returned("lookup_word_pos", word, lookup_word_pos(word))
  /\ LookupFrame

LookupInflection(word) ==
  /\ Returned("lookup_inflection", word, lookup_inflection(word))
  /\ LookupFrame

LookupEtymology(word) ==
  /\ Returned("lookup_etymology", word, lookup_etymology(word))
  /\ LookupFrame

LookupDeclension(word) ==
  /\ Returned("lookup_declension", word, lookup_declension(word))
  /\ LookupFrame

NextLookup ==
  \E word \in LookupWords :
    \/ LookupWordIpas(word)
    \/ LookupWordIpa(word)
    \/ LookupWordPoses(word)
    \/ LookupWordPos(word)
    \/ LookupInflection(word)
    \/ LookupEtymology(word)
    \/ LookupDeclension(word)

SpecLookup == InitLookup /\ [][NextLookup]_vars

----------------------------------------------------------------------------
(* compress_etymologies (morpheme_parser.py), one step per turn of its      *)
(* while loop.  The outer loop takes the words in the dictionary's own      *)
(* order, which is any order.                                               *)
Morphemes == {"a", "b", "c"}
EtymologyWords == {"a", "b"}
EtymologyLists ==
  UNION {[1..n -> Morphemes] : n \in 1..MaxEtymLen}
EtymologyMaps ==
  UNION {[keys -> EtymologyLists] : keys \in SUBSET EtymologyWords}

(* the first index the for loop substitutes at, 0 when it breaks nowhere *)
SubstitutedAt(morphs, etyms) ==
  LET can(i) == /\ morphs[i] \in DOMAIN etyms
                /\ ~(\A d \in Range(etyms[morphs[i]]) : d \in Range(morphs))
  IN IF \E i \in DOMAIN morphs : can(i)
     THEN CHOOSE i \in DOMAIN morphs : can(i) /\ \A j \in 1..(i - 1) : ~can(j)
     ELSE 0

Substitute(morphs, etyms, i) ==
  SubSeq(morphs, 1, i - 1) \o etyms[morphs[i]] \o SubSeq(morphs, i + 1, Len(morphs))

WhileCondition(morphs, etyms) == \E i \in DOMAIN morphs : morphs[i] \in DOMAIN etyms

InitCompress ==
  /\ InitDFA
  /\ variant = "LanguageDFA"
  /\ pos_seq = <<>>
  /\ InitCache
  /\ lang_poses = EmptyMap
  /\ lang_declensions = EmptyMap
  /\ fn_op = "compress_etymologies"
  /\ fn_in = <<>>
  /\ fn_out = <<>>
  /\ etymologies \in EtymologyMaps
  /\ compressed = EmptyMap
  /\ comp_word = "None"
  /\ morphemes = <<>>
  /\ pc = "for"
  /\ phoneme_dict = EmptyMap
  /\ NoLexicon
  /\ NoMisc

CompressFrame ==
  UNCHANGED <<dfa_vars, pos_seq, cache_vars, lang_poses, lang_declensions, call_vars,
              etymologies, phoneme_dict, lexicon_vars, misc_vars>>

CompressNextWord(word) ==
  /\ pc = "for"
  /\ word \in DOMAIN etymologies \ DOMAIN compressed
  /\ comp_word' = word
  /\ morphemes' = etymologies[word]
  /\ pc' = "while"
  /\ UNCHANGED compressed
  /\ CompressFrame

CompressSubstitute ==
  /\ pc = "while"
  /\ WhileCondition(morphemes, etymologies)
  /\ SubstitutedAt(morphemes, etymologies) # 0
  /\ LET longer == Substitute(morphemes, etymologies,
                               SubstitutedAt(morphemes, etymologies))
     IN /\ Len(longer) <= MaxMorphemes
        /\ morphemes' = longer
  /\ UNCHANGED <<compressed, comp_word, pc>>
  /\ CompressFrame

(* the list outgrew MaxMorphemes: the run is followed no further *)
CompressOutgrows ==
  /\ pc = "while"
  /\ WhileCondition(morphemes, etymologies)
  /\ SubstitutedAt(morphemes, etymologies) # 0
  /\ Len(Substitute(morphemes, etymologies,
                     SubstitutedAt(morphemes, etymologies))) > MaxMorphemes
  /\ pc' = "outgrown"
  /\ UNCHANGED <<compressed, comp_word, morphemes>>
  /\ CompressFrame

CompressStore ==
  /\ pc = "while"
  /\ \/ ~WhileCondition(morphemes, etymologies)
     \/ SubstitutedAt(morphemes, etymologies) = 0
  /\ compressed' = Put(compressed, comp_word, morphemes)
  /\ pc' = "for"
  /\ UNCHANGED <<comp_word, morphemes>>
  /\ CompressFrame

CompressReturn ==
  /\ pc = "for"
  /\ DOMAIN etymologies \ DOMAIN compressed = {}
  /\ pc' = "done"
  /\ UNCHANGED <<compressed, comp_word, morphemes>>
  /\ CompressFrame

NextCompress ==
  \/ \E word \in EtymologyWords : CompressNextWord(word)
  \/ CompressSubstitute
  \/ CompressOutgrows
  \/ CompressStore
  \/ CompressReturn

(* the method runs on until it returns *)
SpecCompress == InitCompress /\ [][NextCompress]_vars /\ WF_vars(NextCompress)

----------------------------------------------------------------------------
(* IPA segmentation (ipa_parser.py).  An IPA string is a sequence of        *)
(* symbols; "e" stands for the schwa, "o" for the open-mid back vowel, "c"  *)
(* for the alveolo-palatal fricative, "^" for the tie bar, and the two      *)
(* stress marks are written out.  A method returns [ret, raised].  The      *)
(* methods keep nothing between calls, so a behaviour makes one call.       *)
IPAVOWELS == {"a", "e", "o"}
IPACONSONANTS == {"t", "l", "b", "c", "j", "w"}
IPALETTERS == IPACONSONANTS \cup IPAVOWELS
SEMIVOWELS == {"j", "w"}
STRESS_MARKS == {"primary-stress", "secondary-stress"}

Take(text, n) == SubSeq(text, 1, Min(n, Len(text)))
Drop(text, n) == SubSeq(text, n + 1, Len(text))

RECURSIVE strip_periods(_)
strip_periods(text) ==
  IF text = <<>> THEN text
  ELSE IF Head(text) = "." THEN strip_periods(Tail(text))
  ELSE IF text[Len(text)] = "." THEN strip_periods(SubSeq(text, 1, Len(text) - 1))
  ELSE text

restress(ipa) ==
  strip_periods([i \in DOMAIN ipa |-> IF ipa[i] \in STRESS_MARKS THEN "." ELSE ipa[i]])

(* "True", "False" or "None" *)
is_ipa_vowel(ipa, pd) ==
  IF Len(ipa) = 1 /\ ipa[1] \in IPALETTERS
  THEN IF ipa[1] \in IPAVOWELS THEN "True" ELSE "False"
  ELSE IF Len(ipa) > 1
       THEN IF DOMAIN pd = {} THEN "None"
            ELSE IF ipa \in DOMAIN pd
                 THEN IF \E i \in DOMAIN ipa : ipa[i] \in IPAVOWELS
                      THEN "True" ELSE "False"
                 ELSE "None"
       ELSE "None"

is_ipa_semivowel(ipa) ==
  IF Len(ipa) = 1 /\ ipa[1] \in IPALETTERS
  THEN IF ipa[1] \in SEMIVOWELS THEN "True" ELSE "False"
  ELSE "None"

is_ipa_phoneme(ipa, pd) ==
  \/ \E phoneme \in DOMAIN pd : ipa \in pd[phoneme]
  \/ is_ipa_vowel(ipa, pd) # "None"

(* the polyphoneme search of next_phoneme: the phoneme found and end *)
RECURSIVE polyphoneme(_, _, _, _)
polyphoneme(new_ipa, pd, end, phoneme) ==
  IF end > 3 THEN [phoneme |-> phoneme, end |-> end]
  ELSE LET new_sym == Take(new_ipa, end)
           filtered_sym == SelectSeq(new_sym, LAMBDA x : x \notin SEMIVOWELS)
       IN IF is_ipa_vowel(filtered_sym, pd) = "None"
          THEN [phoneme |-> phoneme, end |-> end - 1]
          ELSE polyphoneme(new_ipa, pd, end + 1,
                           IF is_ipa_phoneme(new_sym, pd) THEN new_sym ELSE phoneme)

(* next_phoneme(ipa, remove=True, use_syllables): [phoneme, rest, raised] *)
next_phoneme(ipa, pd, use_syllables) ==
  IF ipa = <<>> THEN [phoneme |-> <<>>, rest |-> ipa, raised |-> FALSE]
  ELSE LET new_ipa == IF use_syllables THEN split(restress(ipa), ".")[1]
                      ELSE clean_ipa(ipa)
           found == polyphoneme(new_ipa, pd, 1, <<>>)
       IN IF found.phoneme # <<>>
          THEN [phoneme |-> found.phoneme, rest |-> Drop(ipa, found.end), raised |-> FALSE]
          ELSE IF new_ipa = <<>>
               THEN [phoneme |-> <<>>, rest |-> ipa, raised |-> TRUE]  \* new_ipa[0]: IndexError
               ELSE [phoneme |-> <<new_ipa[1]>>, rest |-> Drop(ipa, 1), raised |-> FALSE]

(* the while loop of next_syllable: [syllable, rest] *)
RECURSIVE syllable_loop(_, _, _, _)
syllable_loop(ipa, pd, syllable, pre_vowel) ==
  IF ipa = <<>> THEN [syllable |-> syllable, rest |-> ipa]
  ELSE LET np == next_phoneme(ipa, pd, FALSE)
           is_vowel == is_ipa_vowel(np.phoneme, pd) = "True"
       IN IF pre_vowel
          THEN syllable_loop(np.rest, pd, syllable \o np.phoneme, ~is_vowel)
          ELSE IF is_vowel
               THEN syllable_loop(np.rest, pd, syllable \o np.phoneme, FALSE)
               ELSE IF np.rest = <<>>
                    THEN syllable_loop(np.rest, pd, syllable \o np.phoneme, FALSE)
                    ELSE LET new == next_phoneme(np.rest, pd, FALSE)
                         IN IF is_ipa_vowel(new.phoneme, pd) = "False"
                            THEN syllable_loop(np.rest, pd, syllable \o np.phoneme, FALSE)
                            ELSE [syllable |-> syllable, rest |-> np.phoneme \o np.rest]

next_syllable(ipa, pd) == syllable_loop(clean_ipa(ipa), pd, <<>>, TRUE)

RECURSIVE syllables_of(_, _)
syllables_of(ipa, pd) ==
  IF ipa = <<>> THEN <<>>
  ELSE LET ns == next_syllable(ipa, pd)
       IN <<ns.syllable>> \o syllables_of(ns.rest, pd)

(* split_syllables(ipa, use_syllables); None is NoList *)
split_syllables(ipa, pd, use_syllables) ==
  IF ipa = <<>> THEN NoList
  ELSE IF use_syllables THEN split(restress(ipa), ".")
  ELSE syllables_of(clean_ipa(ipa), pd)

RECURSIVE join(_, _)
join(pieces, sep) ==
  IF pieces = <<>> THEN <<>>
  ELSE IF Len(pieces) = 1 THEN pieces[1]
  ELSE pieces[1] \o <<sep>> \o join(Tail(pieces), sep)

(* IPAWord.add_syllables *)
add_syllables(ipa, pd) == join(syllables_of(ipa, pd), ".")

(* the while loop of break_syllable: [ret, raised] *)
RECURSIVE break_loop(_, _, _, _, _)
break_loop(next_ipa, pd, onset, rhyme, pre_rhyme) ==
  IF next_ipa = <<>> THEN [ret |-> <<onset, rhyme, <<>>>>, raised |-> FALSE]
  ELSE LET np == next_phoneme(next_ipa, pd, TRUE)
           is_vowel == is_ipa_vowel(np.phoneme, pd) = "True"
       IN IF np.raised THEN [ret |-> <<>>, raised |-> TRUE]
          ELSE IF pre_rhyme
               THEN IF is_vowel
                    THEN break_loop(np.rest, pd, onset, rhyme \o np.phoneme, FALSE)
                    ELSE break_loop(np.rest, pd, onset \o np.phoneme, rhyme, TRUE)
               ELSE IF is_vowel \/ is_ipa_semivowel(np.phoneme) = "True"
                    THEN break_loop(np.rest, pd, onset, rhyme \o np.phoneme, FALSE)
                    ELSE [ret |-> <<onset, rhyme, np.phoneme \o np.rest>>,
                          raised |-> FALSE]

break_syllable(syllable, pd) == break_loop(syllable, pd, <<>>, <<>>, TRUE)

IpaAlphabet == {"a", "t", "j", "^", "."}
IpaStrings == UNION {[1..n -> IpaAlphabet] : n \in 0..MaxIpaLen}
ObalacIpa == <<"o", "b", "a", "l", "a", "t", "^", "c">>
TjeIpa == <<"t", "j", "e">>
IpaInputs == IpaStrings \cup {ObalacIpa, TjeIpa, <<"a", "t", "a", "t">>}
PhonemeDicts ==
  { EmptyMap,
    [k \in {<<"t">>} |-> {<<"t", "j">>}],
    [k \in {<<"a", "t">>, <<"a", "t", "a">>} |-> {k}] }

InitIpa ==
  /\ InitDFA
  /\ variant = "LanguageDFA"
  /\ pos_seq = <<>>
  /\ InitCache
  /\ lang_poses = EmptyMap
  /\ lang_declensions = EmptyMap
  /\ NoFn
  /\ NoCompress
  /\ phoneme_dict \in PhonemeDicts
  /\ NoLexicon
  /\ NoMisc

IpaFrame ==
  UNCHANGED <<dfa_vars, pos_seq, cache_vars, lang_poses, lang_declensions, compress_vars,
              phoneme_dict, lexicon_vars, misc_vars>>

SplitSyllables(ipa, use_syllables) ==
  /\ fn_op = "none"
  /\ Returned("split_syllables", [ipa |-> ipa, use_syllables |-> use_syllables],
              [ret |-> split_syllables(ipa, phoneme_dict, use_syllables),
               raised |-> FALSE])
  /\ IpaFrame

BreakSyllable(syllable) ==
  /\ fn_op = "none"
  /\ Returned("break_syllable", [ipa |-> syllable, use_syllables |-> TRUE],
              break_syllable(syllable, phoneme_dict))
  /\ IpaFrame

AddSyllables(ipa) ==
  /\ fn_op = "none"
  /\ Returned("add_syllables", [ipa |-> ipa, use_syllables |-> FALSE],
              [ret |-> add_syllables(ipa, phoneme_dict), raised |-> FALSE])
  /\ IpaFrame

NextIpa ==
  \/ \E ipa \in IpaInputs, use_syllables \in BOOLEAN : SplitSyllables(ipa, use_syllables)
  \/ \E syllable \in IpaInputs : BreakSyllable(syllable)
  \/ \E ipa \in IpaInputs : AddSyllables(ipa)

SpecIpa == InitIpa /\ [][NextIpa]_vars

----------------------------------------------------------------------------
(* derivative_word (morpheme_parser.py): words and derivations are          *)
(* sequences of characters.                                                 *)
DerivChars == {"a", "b", "c"}
PieceChars == {"a", "c", "-"}
DerivWords == UNION {[1..n -> DerivChars] : n \in 1..MaxDerivLen}
DerivPieces == UNION {[1..n -> PieceChars] : n \in 1..2}
DerivLists == UNION {[1..n -> DerivPieces] : n \in 1..2}

replace_hyphens(d) == SelectSeq(d, LAMBDA ch : ch # "-")

RECURSIVE concat(_)
concat(strings) ==
  IF strings = <<>> THEN <<>> ELSE Head(strings) \o concat(Tail(strings))

contains(word, d) ==
  \E i \in 0..(Len(word) - Len(d)) : SubSeq(word, i + 1, i + Len(d)) = d

derivative_word_swapped(word, derivs) ==
  LET derivations == [i \in DOMAIN derivs |-> replace_hyphens(derivs[i])]
      derivation == concat(derivations)
  IN IF word = derivation THEN TRUE
     ELSE /\ \E i \in DOMAIN derivations : contains(word, derivations[i])
          /\ Cardinality(Range(derivation) \ Range(word)) < 2
          /\ Len(word) \in (Len(derivation) - 1)..(Len(derivation) + 1)

derivative_word(word, derivs) ==
  LET derivations == [i \in DOMAIN derivs |-> replace_hyphens(derivs[i])]
      derivation == concat(derivations)
  IN IF word = derivation THEN TRUE
     ELSE /\ \E i \in DOMAIN derivations : contains(word, derivations[i])
          /\ Cardinality(Range(word) \ Range(derivation)) < 2
          /\ Len(word) \in (Len(derivation) - 1)..(Len(derivation) + 1)

InitDerive ==
  /\ InitDFA
  /\ variant = "LanguageDFA"
  /\ pos_seq = <<>>
  /\ InitCache
  /\ InitFn

DerivativeWord(word, derivations) ==
  /\ fn_op = "none"
  /\ Returned("derivative_word", [word |-> word, derivations |-> derivations],
              derivative_word(word, derivations))
  /\ UNCHANGED <<dfa_vars, pos_seq, cache_vars, lang_poses, lang_declensions,
                 compress_vars, phoneme_dict, lexicon_vars, misc_vars>>

NextDerive ==
  /\ fn_op = "none"
  /\ \E word \in DerivWords, derivations \in DerivLists : DerivativeWord(word, derivations)

SpecDerive == InitDerive /\ [][NextDerive]_vars

----------------------------------------------------------------------------
(* Lexica and alphabets (language_parser.py).  A line of the frequency      *)
(* file is <<word, count>>; words are single characters, so the characters  *)
(* of a word are the word.  lim=None is NoLim; a lexicon that is None is    *)
(* NoList.                                                                  *)
LANG_CODES == [Polish |-> "pl"]
Languages == {"Polish", "Klingon"}
CorpusLines == {<<"x", "7">>, <<"y", "7">>}
Corpora == UNION {[1..n -> CorpusLines] : n \in 0..MaxLines}
NoLim == 0 - 1
Lims == 0..MaxLines
AlphabetLim == 1000
LexiconLim == 100000

get_lang_code(language) ==
  IF language \in DOMAIN LANG_CODES THEN LANG_CODES[language] ELSE NoValue

RECURSIVE lexicon_lines(_, _, _, _)
lexicon_lines(lines, lim, line_no, words) ==
  IF lines = <<>> THEN words
  ELSE LET word == Head(lines)[1]
           more == Append(words, unicodize(word))
       IN IF lim # NoLim /\ lim # 0
          THEN IF line_no > lim THEN more
               ELSE lexicon_lines(Tail(lines), lim, line_no + 1, more)
          ELSE lexicon_lines(Tail(lines), lim, line_no, more)

init_lexicon(language, lim) ==
  IF get_lang_code(language) = NoValue THEN NoList
  ELSE lexicon_lines(corpus, lim, 0, <<>>)

RECURSIVE fifty_k_lines(_, _, _, _)
fifty_k_lines(lines, lim, line_no, words) ==
  IF lines = <<>> THEN words
  ELSE LET word == unicodize(Head(lines)[1])
           more == Append(words, word)
       IN IF line_no > lim THEN more
          ELSE fifty_k_lines(Tail(lines), lim, line_no + 1, more)

common_words(language, lim) ==
  IF get_lang_code(language) = NoValue THEN NoList
  ELSE fifty_k_lines(corpus, lim, 0, <<>>)

(* the handlers below return [ret, raised, LEXICA, ALPHABETS] *)
fetch_lexicon(lexica, alphabets, language, lim) ==
  IF language \in DOMAIN lexica
  THEN [ret |-> lexica[language], raised |-> FALSE,
        LEXICA |-> lexica, ALPHABETS |-> alphabets]
  ELSE LET lexicon == init_lexicon(language, lim)
       IN [ret |-> lexicon, raised |-> FALSE,
           LEXICA |-> Put(lexica, language, lexicon), ALPHABETS |-> alphabets]

init_alphabet(lexica, alphabets, language) ==
  LET fetched == fetch_lexicon(lexica, alphabets, language, AlphabetLim)
      words == fetched.ret
  IN IF words = NoList
     THEN [fetched EXCEPT !.ret = {}, !.raised = TRUE]   \* for word in None: TypeError
     ELSE [fetched EXCEPT !.ret = Range(words)]

fetch_alphabet(lexica, alphabets, language) ==
  IF language \in DOMAIN alphabets
  THEN [ret |-> alphabets[language], raised |-> FALSE,
        LEXICA |-> lexica, ALPHABETS |-> alphabets]
  ELSE LET made == init_alphabet(lexica, alphabets, language)
       IN IF made.raised THEN made
          ELSE [made EXCEPT !.ALPHABETS = Put(@, language, made.ret)]

(* LanguageParser.__init__: ret is the lexicon of the new parser *)
construct(lexica, alphabets, language) ==
  LET made == init_alphabet(lexica, alphabets, language)
      lexicon == init_lexicon(language, NoLim)
  IN IF made.raised THEN [made EXCEPT !.ret = NoList]
     ELSE [ret |-> lexicon,
           raised |-> (lexicon = NoList),    \* intersection(None): TypeError
           LEXICA |-> Put(made.LEXICA, language, lexicon),
           ALPHABETS |-> Put(made.ALPHABETS, language, made.ret)]

InitLexica ==
  /\ InitDFA
  /\ variant = "LanguageDFA"
  /\ pos_seq = <<>>
  /\ InitCache
  /\ lang_poses = EmptyMap
  /\ lang_declensions = EmptyMap
  /\ NoFn
  /\ NoCompress
  /\ phoneme_dict = EmptyMap
  /\ LEXICA = EmptyMap
  /\ ALPHABETS = EmptyMap
  /\ corpus \in Corpora
  /\ NoMisc

LexiconFrame ==
  UNCHANGED <<dfa_vars, pos_seq, cache_vars, lang_poses, lang_declensions, compress_vars,
              phoneme_dict, corpus, misc_vars>>

LexiconCall(op, language, lim, done) ==
  /\ Returned(op, [language |-> language, lim |-> lim],
              [ret |-> done.ret, raised |-> done.raised])
  /\ LEXICA' = done.LEXICA
  /\ ALPHABETS' = done.ALPHABETS

InitLexicon(language, lim) ==
  /\ LexiconCall("init_lexicon", language, lim,
                 [ret |-> init_lexicon(language, lim), raised |-> FALSE,
                  LEXICA |-> LEXICA, ALPHABETS |-> ALPHABETS])
  /\ LexiconFrame

CommonWords(language, lim) ==
  /\ LexiconCall("common_words", language, lim,
                 [ret |-> common_words(language, lim), raised |-> FALSE,
                  LEXICA |-> LEXICA, ALPHABETS |-> ALPHABETS])
  /\ LexiconFrame

FetchLexicon(language) ==
  /\ LexiconCall("fetch_lexicon", language, LexiconLim,
                 fetch_lexicon(LEXICA, ALPHABETS, language, LexiconLim))
  /\ LexiconFrame

InitAlphabet(language) ==
  /\ LexiconCall("init_alphabet", language, AlphabetLim,
                 init_alphabet(LEXICA, ALPHABETS, language))
  /\ LexiconFrame

FetchAlphabet(language) ==
  /\ LexiconCall("fetch_alphabet", language, AlphabetLim,
                 fetch_alphabet(LEXICA, ALPHABETS, language))
  /\ LexiconFrame

Construct(language) ==
  /\ LexiconCall("__init__", language, NoLim, construct(LEXICA, ALPHABETS, language))
  /\ LexiconFrame

NextLexica ==
  \/ \E language \in Languages, lim \in Lims \cup {NoLim} : InitLexicon(language, lim)
  \/ \E language \in Languages, lim \in Lims : CommonWords(language, lim)
  \/ \E language \in Languages : FetchLexicon(language)
  \/ \E language \in Languages : InitAlphabet(language)
  \/ \E language \in Languages : FetchAlphabet(language)
  \/ \E language \in Languages : Construct(language)

SpecLexica == InitLexica /\ [][NextLexica]_vars

----------------------------------------------------------------------------
(* Parts of speech of a Wiktionary page (wiktionary_parser.py).  A page is  *)
(* its h2 sections in order, each with its language and the texts of its   *)
(* h3-h5 headers; a header text is <<title, "[edit]">>.                     *)
LEMMA_TYPES ==
  {"Noun", "Verb", "Adjective", "Adverb", "Preposition", "Conjunction", "Interjection",
   "Morpheme", "Pronoun", "Phrase", "Numeral", "Particle", "Participle", "Prefix",
   "Suffix", "Circumfix", "Interfix", "Infix"}
HeaderTitles == {"Noun", "Verb", "Etymology"}
HeaderTexts == {<<t, "[edit]">> : t \in HeaderTitles}
PageLanguages == {"Polish", "Dutch"}
Sections ==
  [language : PageLanguages,
   headers : UNION {[1..n -> HeaderTexts] : n \in 0..MaxHeaders}]
Pages == UNION {[1..n -> Sections] : n \in 0..2}

(* the section of the first h2 naming the language, NoList when none does *)
find_page_language(page, language) ==
  IF \E i \in DOMAIN page : page[i].language = language
  THEN LET i == CHOOSE i \in DOMAIN page :
                   /\ page[i].language = language
                   /\ \A j \in 1..(i - 1) : page[j].language # language
       IN page[i].headers
  ELSE NoList

RECURSIVE lemma_headers(_)
lemma_headers(headers) ==
  IF headers = <<>> THEN <<>>
  ELSE LET header_text == Head(headers)[1]       \* getText()[:-6]
       IN IF header_text \in LEMMA_TYPES
          THEN <<header_text>> \o lemma_headers(Tail(headers))
          ELSE lemma_headers(Tail(headers))

page_poses(page, language) ==
  LET pg == find_page_language(page, language)
  IN IF pg # NoList THEN lemma_headers(pg) ELSE <<>>

page_pos(page, language) ==
  LET poses == page_poses(page, language)
  IN IF poses = <<>> THEN [ret |-> NoValue, raised |-> TRUE]     \* [0]: IndexError
     ELSE [ret |-> poses[1], raised |-> FALSE]

PagePos(page, language) ==
  /\ fn_op = "none"
  /\ Returned("page_pos", [page |-> page, language |-> language],
              page_pos(page, language))
  /\ UNCHANGED <<dfa_vars, pos_seq, cache_vars, lang_poses, lang_declensions,
                 compress_vars, phoneme_dict, lexicon_vars, misc_vars>>

PagePoses(page, language) ==
  /\ fn_op = "none"
  /\ Returned("page_poses", [page |-> page, language |-> language],
              [ret |-> page_poses(page, language), raised |-> FALSE])
  /\ UNCHANGED <<dfa_vars, pos_seq, cache_vars, lang_poses, lang_declensions,
                 compress_vars, phoneme_dict, lexicon_vars, misc_vars>>

NextPage ==
  \/ \E page \in Pages, language \in PageLanguages : PagePos(page, language)
  \/ \E page \in Pages, language \in PageLanguages : PagePoses(page, language)

SpecPage == InitDerive /\ [][NextPage]_vars

----------------------------------------------------------------------------
(* common_morphemes (language_parser.py, and the earlier one of             *)
(* morpheme_parser.py).  Words are sequences of characters; the loop over   *)
(* the set all_words runs in the set's own order, which is any order.       *)
MorphemeWords ==
  { <<"a", "b">>, <<"a", "b", "a">>, <<"a", "b", "a", "b">>,
    <<"a", "b", "a", "b", "a">>, <<"a", "b", "a", "b", "a", "b">>,
    <<"b", "a", "b", "a">> }
Lexicons ==
  {l \in UNION {[1..n -> MorphemeWords] : n \in 0..MaxLexicon} :
      \A i, j \in DOMAIN l : l[i] = l[j] => i = j}
WordnetSets == {MorphemeWords, MorphemeWords \ {<<"a", "b", "a", "b">>}}
Orderings(set) ==
  {o \in [1..Cardinality(set) -> set] : \A i, j \in DOMAIN o : o[i] = o[j] => i = j}

CharRank == [a |-> 1, b |-> 2]

unicode_less(x, y) ==
  \E n \in 0..Min(Len(x), Len(y)) :
     /\ Take(x, n) = Take(y, n)
     /\ \/ n = Len(x) /\ n < Len(y)
        \/ n < Len(x) /\ n < Len(y) /\ CharRank[x[n + 1]] < CharRank[y[n + 1]]

RECURSIVE sorted(_)
sorted(list) ==
  IF list = <<>> THEN <<>>
  ELSE LET i == CHOOSE i \in DOMAIN list :
                   \A j \in DOMAIN list : ~unicode_less(list[j], list[i])
       IN <<list[i]>> \o sorted(SubSeq(list, 1, i - 1) \o SubSeq(list, i + 1, Len(list)))

(* cw[:len(word)] *)
prefix_of(cw, word) == Take(cw, Len(word))

RECURSIVE append_loop_both_ways(_, _, _)
append_loop_both_ways(order, top_words, morphs) ==
  IF order = <<>> THEN morphs
  ELSE LET word == Head(order)
           add == /\ Len(word) > 3
                  /\ \E cw \in top_words :
                        /\ (Len(word) \div 4) < Len(cw)
                        /\ (word = prefix_of(cw, word) \/ cw = prefix_of(word, cw))
       IN append_loop_both_ways(Tail(order), top_words,
                               IF add THEN Append(morphs, unicodize(word)) ELSE morphs)

RECURSIVE append_loop(_, _, _)
append_loop(order, top_words, morphs) ==
  IF order = <<>> THEN morphs
  ELSE LET word == Head(order)
           add == /\ Len(word) > 3
                  /\ \E cw \in top_words :
                        /\ (Len(word) \div 4) < Len(cw)
                        /\ word = prefix_of(cw, word)
       IN append_loop(Tail(order), top_words,
                          IF add THEN Append(morphs, unicodize(word)) ELSE morphs)

all_words_of(lexicon, wordnet_words, lim) ==
  (wordnet_words \cap Range(lexicon)) \ Range(Take(lexicon, lim))

(* LanguageParser.common_morphemes *)
common_morphemes(lexicon, wordnet_words, lim, order) ==
  append_loop(order, Range(Take(lexicon, lim)), Take(lexicon, lim))

RECURSIVE morpheme_append_loop(_, _, _)
morpheme_append_loop(order, top_words, morphs) ==
  IF order = <<>> THEN morphs
  ELSE LET word == Head(order)
           add == /\ Len(word) > 3
                  /\ \E i \in DOMAIN top_words :
                        LET cw == top_words[i]
                        IN /\ Len(cw) > 3
                           /\ (word = prefix_of(cw, word) \/ cw = prefix_of(word, cw))
       IN morpheme_append_loop(Tail(order), top_words,
                                   IF add THEN Append(morphs, word) ELSE morphs)

(* MorphemeParser.common_morphemes *)
morpheme_common_morphemes(lexicon, wordnet_words, lim, order) ==
  sorted(morpheme_append_loop(order, Take(lexicon, lim), Take(lexicon, lim)))

MorphemeFrame ==
  UNCHANGED <<dfa_vars, pos_seq, cache_vars, lang_poses, lang_declensions, compress_vars,
              phoneme_dict, lexicon_vars, misc_vars>>

CommonMorphemes(lexicon, wordnet_words, lim, order) ==
  /\ fn_op = "none"
  /\ Returned("common_morphemes",
              [lexicon |-> lexicon, wordnet_words |-> wordnet_words, lim |-> lim],
              common_morphemes(lexicon, wordnet_words, lim, order))
  /\ MorphemeFrame

MorphemeCommonMorphemes(lexicon, wordnet_words, lim, order) ==
  /\ fn_op = "none"
  /\ Returned("MorphemeParser.common_morphemes",
              [lexicon |-> lexicon, wordnet_words |-> wordnet_words, lim |-> lim],
              morpheme_common_morphemes(lexicon, wordnet_words, lim, order))
  /\ MorphemeFrame

NextMorphemes ==
  /\ fn_op = "none"
  /\ \E lexicon \in Lexicons, wordnet_words \in WordnetSets, lim \in 0..MaxLexicon :
       \E order \in Orderings(all_words_of(lexicon, wordnet_words, lim)) :
         \/ CommonMorphemes(lexicon, wordnet_words, lim, order)
         \/ MorphemeCommonMorphemes(lexicon, wordnet_words, lim, order)

SpecMorphemes == InitDerive /\ [][NextMorphemes]_vars

----------------------------------------------------------------------------
(* Several LanguageParser objects of one process over ipas.json.  Each     *)
(* constructor reads the file into the object's own dictionary; a refresh  *)
(* writes the object's dictionary over the file.                           *)
MaxShareOps == 5
ParserIds == {1, 2}
ShareValues == {"x", "y"}

fetch_json == ipas_json

dump_json(data) == data

NewParser(p) ==
  /\ ncache < MaxShareOps
  /\ p = Cardinality(DOMAIN parsers) + 1
  /\ parsers' = Put(parsers, p, fetch_json)
  /\ ncache' = ncache + 1
  /\ UNCHANGED <<dfa_vars, pos_seq, lang_ipas, lang_etymologies, lang_inflections,
                 first_seen, lang_poses, lang_declensions, call_vars, compress_vars,
                 phoneme_dict, lexicon_vars, ipas_json, batch_vars>>

ParserAddIpa(p, word, ipa) ==
  /\ ncache < MaxShareOps
  /\ p \in DOMAIN parsers
  /\ parsers' = [parsers EXCEPT ![p] = add_ipa(@, word, ipa)]
  /\ ncache' = ncache + 1
  /\ UNCHANGED <<dfa_vars, pos_seq, lang_ipas, lang_etymologies, lang_inflections,
                 first_seen, lang_poses, lang_declensions, call_vars, compress_vars,
                 phoneme_dict, lexicon_vars, ipas_json, batch_vars>>

RefreshIpas(p) ==
  /\ ncache < MaxShareOps
  /\ p \in DOMAIN parsers
  /\ ipas_json' = dump_json(parsers[p])
  /\ ncache' = ncache + 1
  /\ UNCHANGED <<dfa_vars, pos_seq, lang_ipas, lang_etymologies, lang_inflections,
                 first_seen, lang_poses, lang_declensions, call_vars, compress_vars,
                 phoneme_dict, lexicon_vars, parsers, batch_vars>>

NextShare ==
  \/ \E p \in ParserIds : NewParser(p)
  \/ \E p \in ParserIds, word \in CacheWords, ipa \in ShareValues : ParserAddIpa(p, word, ipa)
  \/ \E p \in ParserIds : RefreshIpas(p)

SpecShare == InitDerive /\ [][NextShare]_vars

----------------------------------------------------------------------------
(* IPAWord.find_phoneme_dict: which alignment it runs.  The word is a      *)
(* sequence of letters, ipa_phonemes is what find_ipa_phonemes returned    *)
(* (each phoneme a sequence of symbols); the two syllable counts are what  *)
(* count_word_syllables and count_ipa_syllables returned.                  *)
PhonemeWords == UNION {[1..n -> {"a", "b"}] : n \in 1..MaxPhonemes}
IpaPhonemes == {<<"a">>, <<"t">>, <<"t", "s">>}
IpaPhonemeLists == UNION {[1..n -> IpaPhonemes] : n \in 1..MaxPhonemes}
SyllableCounts == {1, 2}

(* False, which compares as the integer 0, when the counts differ *)
equal_word_ipa_syllables(word_syllables, ipa_syllables) ==
  IF word_syllables = ipa_syllables THEN word_syllables ELSE 0

is_difficult(word, ipas) ==
  Len(word) # Len(ipas) \/ \E i \in DOMAIN ipas : Len(ipas[i]) > 1

find_phoneme_dict_any_count(word, ipa_phonemes, word_syllables, ipa_syllables) ==
  IF equal_word_ipa_syllables(word_syllables, ipa_syllables) # 0
  THEN IF Len(ipa_phonemes) = 1 THEN "add_phoneme_entry" ELSE "find_word_phonemes"
  ELSE IF ~is_difficult(word, ipa_phonemes) THEN "positional"
  ELSE "find_hard_word_phonemes"

find_phoneme_dict(word, ipa_phonemes, word_syllables, ipa_syllables) ==
  IF equal_word_ipa_syllables(word_syllables, ipa_syllables) = 1
  THEN IF Len(ipa_phonemes) = 1 THEN "add_phoneme_entry" ELSE "find_word_phonemes"
  ELSE IF ~is_difficult(word, ipa_phonemes) THEN "positional"
  ELSE "find_hard_word_phonemes"

FindPhonemeDict(word, ipa_phonemes, word_syllables, ipa_syllables) ==
  /\ fn_op = "none"
  /\ Returned("find_phoneme_dict",
              [word |-> word, ipa_phonemes |-> ipa_phonemes,
               word_syllables |-> word_syllables, ipa_syllables |-> ipa_syllables],
              find_phoneme_dict(word, ipa_phonemes, word_syllables, ipa_syllables))
  /\ MorphemeFrame

NextPhonemes ==
  /\ fn_op = "none"
  /\ \E word \in PhonemeWords, ipa_phonemes \in IpaPhonemeLists,
        word_syllables \in SyllableCounts, ipa_syllables \in SyllableCounts :
          FindPhonemeDict(word, ipa_phonemes, word_syllables, ipa_syllables)

SpecPhonemes == InitDerive /\ [][NextPhonemes]_vars

----------------------------------------------------------------------------
(* A batch of IPAWord objects and IPAParser.ipa_words_phonemes.  The words *)
(* of the batch have one syllable and one one-symbol phoneme, so that      *)
(* find_phoneme_dict maps the whole word to that phoneme.                  *)
BatchWords ==
  { [word |-> <<"a">>, ipa |-> <<"a">>],
    [word |-> <<"b">>, ipa |-> <<"t">>],
    [word |-> <<"a", "b">>, ipa |-> <<"o">>],
    [word |-> <<"b", "b", "b">>, ipa |-> <<"t">>],
    [word |-> <<"a", "b", "a", "b">>, ipa |-> <<"a">>] }

RECURSIVE sum_squares(_)
sum_squares(ipas) ==
  IF ipas = <<>> THEN 0
  ELSE (Len(Head(ipas)) - 1) * (Len(Head(ipas)) - 1) + sum_squares(Tail(ipas))

difficulty_score(word, ipas) ==
  LET base == Max(Len(word) - Len(ipas), Len(ipas) - Len(word)) + Max(0, Len(word) - 2)
  IN base * base + sum_squares(ipas)

get_difficulty(iw) == difficulty_score(iw.word, <<iw.ipa>>)

add_phoneme_entry(pd, chars, ipas) ==
  Put(pd, chars, (IF chars \in DOMAIN pd THEN pd[chars] ELSE {}) \cup {ipas})

RECURSIVE merge_all(_, _)
merge_all(pd, order) ==
  IF order = <<>> THEN pd
  ELSE merge_all(add_phoneme_entry(pd, Head(order).word, Head(order).ipa), Tail(order))

BatchFrame ==
  UNCHANGED <<dfa_vars, pos_seq, cache_vars, lang_poses, lang_declensions, compress_vars,
              lexicon_vars, share_vars>>

(* IPAWord(word, ipa, parser): __init__ ends with find_phoneme_dict *)
NewIPAWord(iw) ==
  /\ fn_op = "none"
  /\ Len(ipa_words) < MaxBatch
  /\ iw \notin Range(ipa_words)
  /\ ipa_words' = Append(ipa_words, iw)
  /\ phoneme_dict' = add_phoneme_entry(phoneme_dict, iw.word, iw.ipa)
  /\ written' = Append(written, iw.word)
  /\ UNCHANGED call_vars
  /\ BatchFrame

(* sorted(ipa_words, key=get_difficulty) over a set: any order of the set  *)
(* in which the difficulty never decreases                                 *)
IpaWordsPhonemes(order) ==
  /\ fn_op = "none"
  /\ ipa_words # <<>>
  /\ \A i, j \in DOMAIN order : i < j => get_difficulty(order[i]) <= get_difficulty(order[j])
  /\ phoneme_dict' = merge_all(phoneme_dict, order)
  /\ written' = written \o [i \in DOMAIN order |-> order[i].word]
  /\ Returned("ipa_words_phonemes", ipa_words, merge_all(phoneme_dict, order))
  /\ UNCHANGED ipa_words
  /\ BatchFrame

NextBatch ==
  \/ \E iw \in BatchWords : NewIPAWord(iw)
  \/ \E order \in Orderings(Range(ipa_words)) : IpaWordsPhonemes(order)

SpecBatch == InitDerive /\ [][NextBatch]_vars

----------------------------------------------------------------------------
(* WiktionaryParser.table_dict.  A table is a sequence of rows, a row a    *)
(* sequence of cells [id, rowspan, colspan].  The record t carries the     *)
(* dictionary td, the loop variables r and c, the positions rn, cn, ci of  *)
(* row_iter, col_iter and cells_iter, and the history field overwritten:   *)
(* the coordinates that were assigned while they already held another cell *)
Spans == {1, 2}
SpanRows == UNION {[1..n -> Spans \X Spans] : n \in 1..2}
Tables(rows) ==
  UNION {{[r \in 1..n |->
             [k \in DOMAIN sp[r] |->
                [id |-> 2 * (r - 1) + k, rowspan |-> sp[r][k][1], colspan |-> sp[r][k][2]]]] :
            sp \in [1..n -> SpanRows]} : n \in 1..rows}

RECURSIVE num_cols_from(_)
num_cols_from(cells) ==
  IF cells = <<>> THEN 0 ELSE Head(cells).colspan + num_cols_from(Tail(cells))

num_cols(table) == num_cols_from(table[1])

assign(t, coord, cell) ==
  [t EXCEPT !.td = Put(@, coord, cell.id),
            !.overwritten = IF coord \in DOMAIN t.td /\ t.td[coord] # cell.id
                            THEN @ \cup {coord} ELSE @]

(* while coord in table_dict: ... *)
RECURSIVE skip_filled(_, _)
skip_filled(t, table) ==
  IF <<t.r, t.c>> \notin DOMAIN t.td THEN t
  ELSE IF t.cn < num_cols(table) THEN skip_filled([t EXCEPT !.cn = @ + 1, !.c = @ + 1], table)
  ELSE IF t.rn < Len(table) THEN skip_filled([t EXCEPT !.rn = @ + 1, !.r = @ + 1], table)
  ELSE [t EXCEPT !.broke = TRUE]

RECURSIVE fill_span(_, _, _, _)
fill_span(t, cell, rs, cs) ==
  IF rs >= cell.rowspan THEN t
  ELSE IF cs >= cell.colspan THEN fill_span(t, cell, rs + 1, 0)
  ELSE fill_span(assign(t, <<t.r + rs, t.c + cs>>, cell), cell, rs, cs + 1)

(* the else branch of the while loop *)
place(t, cell, table) ==
  IF cell.colspan # 1 \/ cell.rowspan # 1
  THEN LET filled == fill_span(t, cell, 0, 0)
       IN IF filled.cn + (cell.colspan - 1) > num_cols(table)
          THEN [filled EXCEPT !.raised = TRUE]      \* col_iter.next(): StopIteration
          ELSE [filled EXCEPT !.cn = @ + cell.colspan - 1]
  ELSE assign(t, <<t.r, t.c>>, cell)

(* for c in col_iter *)
RECURSIVE col_loop(_, _, _)
col_loop(t, cells, table) ==
  IF t.raised \/ t.cn >= num_cols(table) THEN t
  ELSE LET t1 == [t EXCEPT !.c = t.cn, !.cn = @ + 1]
       IN IF t1.ci >= Len(cells) THEN col_loop(t1, cells, table)
          ELSE LET cell == cells[t1.ci + 1]
                   t2 == skip_filled([t1 EXCEPT !.ci = @ + 1], table)
               IN IF t2.broke THEN col_loop([t2 EXCEPT !.broke = FALSE], cells, table)
                  ELSE col_loop(place(t2, cell, table), cells, table)

(* for r in row_iter *)
RECURSIVE row_loop(_, _)
row_loop(t, table) ==
  IF t.raised \/ t.rn >= Len(table) THEN t
  ELSE row_loop(col_loop([t EXCEPT !.r = t.rn, !.rn = @ + 1, !.cn = 0, !.ci = 0],
                         table[t.rn + 1], table),
                table)

table_dict(table) ==
  LET t == row_loop([td |-> EmptyMap, r |-> 0, c |-> 0, rn |-> 0, cn |-> 0, ci |-> 0,
                     overwritten |-> {}, broke |-> FALSE, raised |-> FALSE], table)
  IN [table_dict |-> t.td, overwritten |-> t.overwritten, raised |-> t.raised]

TableDict(table) ==
  /\ fn_op = "none"
  /\ Returned("table_dict", table, table_dict(table))
  /\ MorphemeFrame

NextTable ==
  /\ fn_op = "none"
  /\ \E table \in Tables(MaxRows) : TableDict(table)

SpecTable == InitDerive /\ [][NextTable]_vars

----------------------------------------------------------------------------
(* MorphemeParser.strip_affixes.  words is self.morphemes.union(self.words) *)
(* ; iterations counts the passes of the while loop.                        *)
AffixWords == UNION {[1..n -> {"a", "b"}] : n \in 0..MaxAffixWord}
AffixMorphemes ==
  {<<"a">>, <<"a", "b">>, <<"b", "a">>, <<"a", "b", "a">>, <<"a", "b", "a", "b">>}

RECURSIVE strip_loop_dropping_buffer(_, _, _, _, _, _)
strip_loop_dropping_buffer(word, words, new_word, last_morpheme, morphs, iterations) ==
  IF new_word = <<>> THEN [ret |-> SelectSeq(morphs, LAMBDA m : m # <<>>),
                           iterations |-> iterations, stuck |-> FALSE]
  ELSE IF iterations > Len(word) THEN [ret |-> morphs, iterations |-> iterations,
                                       stuck |-> TRUE]
  ELSE
    LET matching == {m \in words : /\ m # word
                                   /\ Len(m) > 1
                                   /\ m = Take(new_word, Len(m))
                                   /\ Len(last_morpheme) > 1
                                   /\ last_morpheme \in words}
    IN IF matching # {}
       THEN LET morpheme == CHOOSE m \in matching : \A o \in matching : Len(o) <= Len(m)
            IN strip_loop_dropping_buffer(word, words, Drop(new_word, Len(morpheme)), <<>>,
                  Append(morphs, morpheme),
                  iterations + 1)
       ELSE LET buffer == Append(last_morpheme, Head(new_word))
            IN strip_loop_dropping_buffer(word, words, Tail(new_word), buffer,
                  IF Len(new_word) = 1 THEN Append(morphs, buffer) ELSE morphs,
                  iterations + 1)

RECURSIVE strip_loop(_, _, _, _, _, _)
strip_loop(word, words, new_word, last_morpheme, morphs, iterations) ==
  IF new_word = <<>> THEN [ret |-> SelectSeq(morphs, LAMBDA m : m # <<>>),
                           iterations |-> iterations, stuck |-> FALSE]
  ELSE IF iterations > Len(word) THEN [ret |-> morphs, iterations |-> iterations,
                                       stuck |-> TRUE]
  ELSE
    LET matching == {m \in words : /\ m # word
                                   /\ Len(m) > 1
                                   /\ m = Take(new_word, Len(m))
                                   /\ Len(last_morpheme) > 1
                                   /\ last_morpheme \in words}
    IN IF matching # {}
       THEN LET morpheme == CHOOSE m \in matching : \A o \in matching : Len(o) <= Len(m)
            IN strip_loop(word, words, Drop(new_word, Len(morpheme)), <<>>,
                  Append(Append(morphs, last_morpheme), morpheme),
                  iterations + 1)
       ELSE LET buffer == Append(last_morpheme, Head(new_word))
            IN strip_loop(word, words, Tail(new_word), buffer,
                  IF Len(new_word) = 1 THEN Append(morphs, buffer) ELSE morphs,
                  iterations + 1)

strip_affixes(word, words) == strip_loop(word, words, word, <<>>, <<>>, 0)

StripAffixes(word, words) ==
  /\ fn_op = "none"
  /\ Returned("strip_affixes", [word |-> word, words |-> words], strip_affixes(word, words))
  /\ MorphemeFrame

NextAffixes ==
  /\ fn_op = "none"
  /\ \E word \in AffixWords, words \in SUBSET AffixMorphemes : StripAffixes(word, words)

SpecAffixes == InitDerive /\ [][NextAffixes]_vars

----------------------------------------------------------------------------
(* Observers used by the properties *)
lookup_state_colour(colours, state) ==
  IF state \in DOMAIN colours THEN colours[state] ELSE NoColour

IsRGBA(colour) == Len(colour) = 4 /\ \A i \in 1..4 : colour[i] \in 100..225

RECURSIVE Follow(_, _, _)
Follow(tr, state, chars) ==
  IF chars = <<>> THEN state
  ELSE IF <<state, Head(chars)>> \in DOMAIN tr
       THEN Follow(tr, tr[<<state, Head(chars)>>], Tail(chars))
       ELSE -1

Injective(f) == \A x, y \in DOMAIN f : f[x] = f[y] => x = y

Palette(pos) == IF variant = "dfa.MorphemeDFA" THEN pos_add(pos) ELSE pos_rgb(pos)

Blend2(first, second) ==
  avg_colour(avg_colour(<<0, 0, 0, 0>>, Palette(first)), Palette(second))

----------------------------------------------------------------------------
(* C1: a direct transition(state, symbol) call on an already recorded pair *)
(* returns the recorded destination and changes neither states nor         *)
(* transitions; a call on an unseen pair adds exactly one fresh state and  *)
(* exactly one transition entry leading to it.                             *)
TransitionMemoized ==
  [][last'.op = "transition" =>
       LET key == <<last'.from, last'.word[1]>>
       IN IF key \in DOMAIN transitions
          THEN /\ last'.ret = transitions[key]
               /\ last'.news = <<>>
               /\ states' = states
               /\ transitions' = transitions
          ELSE /\ last'.news = <<last'.ret>>
               /\ last'.ret \notin states
               /\ states' = states \cup {last'.ret}
               /\ transitions' = Put(transitions, key, last'.ret)]_vars

TransitionRepeated ==
  /\ last.op = "transition"
  /\ last.news = <<>>
  /\ transitions[<<last.from, last.word[1]>>] = last.ret

(* C2: an add_word_pair call that repeats the call made just before it    *)
(* (same word, same part of speech, both started at state 0 and both       *)
(* returned) creates no state and no transition, in every automaton        *)
(* variant.                                                                *)
ReinsertionAddsNothing ==
  [][(/\ last.op = "add_word_pair" /\ last.from = 0 /\ ~last.raised
      /\ last'.op = "add_word_pair" /\ last'.from = 0 /\ ~last'.raised
      /\ last'.word = last.word
      /\ last'.pos = last.pos)
       => (states' = states /\ transitions' = transitions)]_vars

(* C3: every colour stored for a state is an RGBA 4-tuple with every       *)
(* channel in 100..225.                                                    *)
StoredColoursAreRGBA ==
  \A s \in DOMAIN state_colours : IsRGBA(state_colours[s])

(* C4: an id returned by new_state() is never returned again, clear() or   *)
(* not.                                                                    *)
NewStateNeverReusesAnId ==
  [][\A i \in DOMAIN last'.news : last'.news[i] \notin allocated]_vars

(* C4 (amended): an id returned by new_state() is not returned again by a  *)
(* later new_state() call made before the next clear().                    *)
NewStateFreshUntilClear ==
  [][\A i \in DOMAIN last'.news :
        /\ last'.news[i] \notin alloc_since
        /\ \A j \in 1..(i - 1) : last'.news[j] # last'.news[i]]_vars

NewStateAfterEarlierOnes ==
  /\ last.news # <<>>
  /\ Cardinality(alloc_since) > Len(last.news)

(* C5: between clears no call lowers a channel of a coloured state or      *)
(* removes the state's colour.                                             *)
ColoursNeverDarken ==
  [][last'.op # "clear" =>
       \A s \in DOMAIN state_colours :
          Len(state_colours[s]) = 4 =>
            /\ s \in DOMAIN state_colours'
            /\ Len(state_colours'[s]) = 4
            /\ \A i \in 1..4 : state_colours'[s][i] >= state_colours[s][i]]_vars

(* C6: in the later variants add_success_state(state, None) leaves the     *)
(* colour recorded for the state exactly as it was.                        *)
AbsentPosKeepsColour ==
  [][(last'.op = "add_success_state" /\ last'.pos = NoPos /\ variant \in LaterVariants)
       => lookup_state_colour(state_colours', last'.from)
            = lookup_state_colour(state_colours, last'.from)]_vars

(* C7: add_word and add_word_pair start from state 0, mark (with the       *)
(* pair's part of speech or the untagged marker) the state reached by      *)
(* following the word's symbols in order from state 0, and leave           *)
(* current_state = 0 on return.                                            *)
IngestionMarksWordPath ==
  (last.op \in {"add_word", "add_word_pair"} /\ ~last.raised /\ ~last.stuck) =>
     /\ last.from = 0
     /\ current_state = 0
     /\ last.ret = Follow(transitions, 0, Folded(last.word))
     /\ last.ret \in DOMAIN success_states
     /\ last.pos \in success_states[last.ret]

(* C8: no two (state, symbol) pairs share a destination, the states other  *)
(* than state 0 are as many as the transitions, and they never outnumber   *)
(* the symbols inserted.                                                   *)
NeverMergedWithinSymbolCount ==
  /\ Injective(transitions)
  /\ Cardinality(states \ {0}) = Cardinality(DOMAIN transitions)
  /\ Cardinality(DOMAIN transitions) <= symbols

(* C8 (amended): as C8, but in the phrase automaton a restart folds one    *)
(* token twice, so there the bound is twice the symbols inserted.          *)
NeverMergedWithinRestartCount ==
  /\ Injective(transitions)
  /\ Cardinality(states \ {0}) = Cardinality(DOMAIN transitions)
  /\ Cardinality(DOMAIN transitions)
       <= (IF variant = "PhraseDFA" THEN 2 * symbols ELSE symbols)

RestartFoldedATokenTwice ==
  /\ variant = "PhraseDFA"
  /\ Cardinality(DOMAIN transitions) > symbols

(* C9: two distinct palette parts of speech added to a fresh state give    *)
(* the same colour in either order.                                        *)
TwoPosOrderIndependent ==
  (Len(pos_seq) = 2 /\ pos_seq[1] # pos_seq[2]) =>
     state_colours[0] = Blend2(pos_seq[2], pos_seq[1])

(* C9 (amended): two distinct palette parts of speech added to a fresh     *)
(* state give the same colour in either order exactly when every channel   *)
(* to which only one of the two contributes receives at least 225 from it; *)
(* any other pair is already order-sensitive.                              *)
LoneContributionsSaturate(p, q) ==
  \A i \in 1..4 :
     /\ (Palette(p)[i] = 0 /\ Palette(q)[i] # 0) => Palette(q)[i] >= 225
     /\ (Palette(q)[i] = 0 /\ Palette(p)[i] # 0) => Palette(p)[i] >= 225

TwoPosOrderIndependentIffSaturating ==
  (Len(pos_seq) = 2 /\ pos_seq[1] # pos_seq[2]) =>
     ((state_colours[0] = Blend2(pos_seq[2], pos_seq[1]))
        <=> LoneContributionsSaturate(pos_seq[1], pos_seq[2]))

TwoPosOrderMatters ==
  /\ Len(pos_seq) = 2
  /\ pos_seq[1] # pos_seq[2]
  /\ state_colours[0] # Blend2(pos_seq[2], pos_seq[1])

(* C10: after any sequence of add_ipa, add_etymology and add_inflection    *)
(* calls every value list holds each value once, in first-seen order.      *)
ValueListsKeepFirstSeenOrder ==
  /\ lang_ipas = first_seen.ipa
  /\ lang_etymologies = first_seen.etymology
  /\ lang_inflections = first_seen.inflection

(* C11: every cache lookup (IPA, part of speech, inflection, etymology,    *)
(* declension) returns the entry of the key as given when there is one,    *)
(* otherwise the entry of the lowercased key when there is one, and an     *)
(* empty or absent result only when both are missing.                      *)
CacheOf(op) ==
  CASE op \in {"lookup_word_ipas", "lookup_word_ipa"} -> lang_ipas
    [] op \in {"lookup_word_poses", "lookup_word_pos"} -> lang_poses
    [] op = "lookup_inflection" -> lang_inflections
    [] op = "lookup_etymology" -> lang_etymologies
    [] op = "lookup_declension" -> lang_declensions

LookupOps ==
  {"lookup_word_ipas", "lookup_word_ipa", "lookup_word_poses", "lookup_word_pos",
   "lookup_inflection", "lookup_etymology", "lookup_declension"}

FirstOnly == {"lookup_word_ipa", "lookup_word_pos"}

LookupsFallBackToLowercase ==
  fn_op \in LookupOps =>
    LET cache == CacheOf(fn_op)
        hit == IF fn_in \in DOMAIN cache THEN fn_in
               ELSE IF Lower(fn_in) \in DOMAIN cache THEN Lower(fn_in)
               ELSE NoValue
    IN IF hit = NoValue
       THEN IF fn_op \in FirstOnly THEN fn_out = NoValue ELSE fn_out \in {<<>>, NoList}
       ELSE fn_out = (IF fn_op \in FirstOnly THEN cache[hit][1] ELSE cache[hit])

(* C12: compress_etymologies returns for every finite etymology map, also  *)
(* one whose etymologies refer to each other in a cycle (a run whose list  *)
(* outgrows MaxMorphemes is not followed further).                         *)
CompressTerminates == <>(pc \in {"done", "outgrown"})

(* C13: for every non-empty IPA string the syllables returned by           *)
(* marker-free split_syllables, concatenated in order, are the cleaned     *)
(* string.                                                                 *)
RECURSIVE Concat(_)
Concat(pieces) == IF pieces = <<>> THEN <<>> ELSE Head(pieces) \o Concat(Tail(pieces))

SyllablesRebuildCleanedIpa ==
  (fn_op = "split_syllables" /\ ~fn_in.use_syllables /\ fn_in.ipa # <<>>) =>
     Concat(fn_out.ret) = clean_ipa(fn_in.ipa)

(* C18: break_syllable returns an (onset, rhyme, coda) triple for every    *)
(* non-empty syllable (a syllable holds no stress or syllable mark), a     *)
(* semivowel next to the vowel nucleus is in the rhyme and not at the end  *)
(* of the onset, and the syllable t-j-schwa yields ("t", "j schwa", "").   *)
BreakSyllableKeepsGlideInRhyme ==
  (fn_op = "break_syllable" /\ fn_in.ipa # <<>> /\ clean_ipa(fn_in.ipa) = fn_in.ipa) =>
     /\ ~fn_out.raised
     /\ Len(fn_out.ret) = 3
     /\ LET onset == fn_out.ret[1]
            rhyme == fn_out.ret[2]
        IN ~(onset # <<>> /\ rhyme # <<>> /\ onset[Len(onset)] \in SEMIVOWELS)
     /\ fn_in.ipa = TjeIpa => fn_out.ret = <<<<"t">>, <<"j", "e">>, <<>>>>

(* C20: add_syllables on a marker-free IPA string gives one syllable per   *)
(* vowel nucleus (at least one), word-final consonant material staying in  *)
(* the last vowel's syllable: the Polish fixture becomes o.ba.lat^c.       *)
VowelRuns(ipa) ==
  Cardinality({i \in DOMAIN ipa :
                 /\ ipa[i] \in IPAVOWELS
                 /\ (i = 1 \/ ipa[i - 1] \notin IPAVOWELS)})

AddSyllablesOnePerNucleus ==
  (fn_op = "add_syllables" /\ fn_in.ipa # <<>> /\ clean_ipa(fn_in.ipa) = fn_in.ipa) =>
     /\ Len(split(fn_out.ret, ".")) = Max(1, VowelRuns(fn_in.ipa))
     /\ fn_in.ipa = ObalacIpa =>
          fn_out.ret = <<"o", ".", "b", "a", ".", "l", "a", "t", "^", "c">>

(* C14: derivative_word is true exactly when the hyphen-stripped pieces    *)
(* concatenate to the word, or some piece occurs in the word, the          *)
(* symmetric difference of the two character sets has fewer than 2         *)
(* elements and the lengths differ by at most 1.                           *)
Stripped(derivations) ==
  [i \in DOMAIN derivations |-> SelectSeq(derivations[i], LAMBDA ch : ch # "-")]

Occurs(piece, word) ==
  \E lo \in 1..(Len(word) + 1) :
     /\ lo + Len(piece) - 1 <= Len(word)
     /\ \A k \in 1..Len(piece) : word[lo + k - 1] = piece[k]

Abs(n) == IF n < 0 THEN 0 - n ELSE n

DerivativeBySymmetricDifference ==
  fn_op = "derivative_word" =>
    LET word == fn_in.word
        pieces == Stripped(fn_in.derivations)
        whole == Concat(pieces)
        chars == Range(word)
        others == Range(whole)
    IN fn_out <=>
         \/ whole = word
         \/ /\ \E i \in DOMAIN pieces : Occurs(pieces[i], word)
            /\ Cardinality((chars \ others) \cup (others \ chars)) < 2
            /\ Abs(Len(word) - Len(whole)) <= 1

(* C14 (amended): as C14, with the characters of the word that do not      *)
(* occur in the concatenation in place of the symmetric difference.        *)
DerivativeByWordOnlyCharacters ==
  fn_op = "derivative_word" =>
    LET word == fn_in.word
        pieces == Stripped(fn_in.derivations)
        whole == Concat(pieces)
    IN fn_out <=>
         \/ whole = word
         \/ /\ \E i \in DOMAIN pieces : Occurs(pieces[i], word)
            /\ Cardinality(Range(word) \ Range(whole)) < 2
            /\ Abs(Len(word) - Len(whole)) <= 1

DerivativeDespiteForeignCharacters ==
  /\ fn_op = "derivative_word"
  /\ fn_out
  /\ Cardinality(Range(Concat(Stripped(fn_in.derivations))) \ Range(fn_in.word)) >= 2

(* C15: common_words(lim) returns the words of the first lim lines of the  *)
(* frequency file, in file order, and so at most lim words.                *)
CorpusWords == [i \in DOMAIN corpus |-> corpus[i][1]]

CommonWordsAreTheFirstLim ==
  (fn_op = "common_words" /\ fn_in.language \in DOMAIN LANG_CODES) =>
     /\ Len(fn_out.ret) <= fn_in.lim
     /\ fn_out.ret = SubSeq(CorpusWords, 1, Min(fn_in.lim, Len(corpus)))

(* C17: for a language without a corpus code every lexicon and alphabet    *)
(* operation, the construction of a parser included, returns without       *)
(* raising and yields an absent lexicon or an empty alphabet.              *)
LexiconOps == {"init_lexicon", "fetch_lexicon", "common_words", "__init__"}
AlphabetOps == {"init_alphabet", "fetch_alphabet"}

UncodedLanguageYieldsAbsent ==
  (fn_op \in LexiconOps \cup AlphabetOps /\ fn_in.language \notin DOMAIN LANG_CODES) =>
     /\ ~fn_out.raised
     /\ fn_op \in LexiconOps => fn_out.ret = NoList
     /\ fn_op \in AlphabetOps => fn_out.ret = {}

(* C16: page_pos on a page with no section for the language, or with no    *)
(* recognised part-of-speech header in that section, returns an absent     *)
(* value and does not raise.                                               *)
HasNoPos(page, language) ==
  \/ \A i \in DOMAIN page : page[i].language # language
  \/ \E i \in DOMAIN page :
        /\ page[i].language = language
        /\ \A j \in 1..(i - 1) : page[j].language # language
        /\ \A k \in DOMAIN page[i].headers : page[i].headers[k][1] \notin LEMMA_TYPES

PagePosAbsentWithoutRaising ==
  (fn_op = "page_pos" /\ HasNoPos(fn_in.page, fn_in.language)) =>
     /\ ~fn_out.raised
     /\ fn_out.ret = NoValue

(* C19: common_morphemes adds a candidate (a WordNet word of the lexicon   *)
(* outside the top-N) exactly when it is longer than 3 characters and is   *)
(* a prefix of, or has as a prefix, a top-N word longer than a quarter of  *)
(* the candidate; no word of 3 or fewer characters is added.               *)
IsPrefix(short, long) ==
  Len(short) <= Len(long) /\ \A i \in 1..Len(short) : short[i] = long[i]

TopN == Range(SubSeq(fn_in.lexicon, 1, Min(fn_in.lim, Len(fn_in.lexicon))))
Candidates == (fn_in.wordnet_words \cap Range(fn_in.lexicon)) \ TopN
Added == Range(fn_out) \ TopN

AddedIffPrefixEitherWay ==
  fn_op \in {"common_morphemes", "MorphemeParser.common_morphemes"} =>
    /\ Added = {w \in Candidates :
                  /\ Len(w) > 3
                  /\ \E cw \in TopN : /\ 4 * Len(cw) > Len(w)
                                       /\ (IsPrefix(w, cw) \/ IsPrefix(cw, w))}
    /\ \A w \in Added : Len(w) > 3

(* C19 (amended): LanguageParser.common_morphemes adds a candidate exactly *)
(* when it is longer than 3 characters and is a prefix of a top-N word     *)
(* longer than a quarter of the candidate; MorphemeParser.common_morphemes *)
(* adds it exactly when it is longer than 3 characters and is a prefix of, *)
(* or has as a prefix, a top-N word longer than 3 characters; neither adds *)
(* a word of 3 or fewer characters.                                        *)
AddedIffPrefixAsCoded ==
  /\ fn_op = "common_morphemes" =>
       Added = {w \in Candidates :
                  /\ Len(w) > 3
                  /\ \E cw \in TopN : 4 * Len(cw) > Len(w) /\ IsPrefix(w, cw)}
  /\ fn_op = "MorphemeParser.common_morphemes" =>
       Added = {w \in Candidates :
                  /\ Len(w) > 3
                  /\ \E cw \in TopN : /\ Len(cw) > 3
                                       /\ (IsPrefix(w, cw) \/ IsPrefix(cw, w))}
  /\ fn_op \in {"common_morphemes", "MorphemeParser.common_morphemes"} =>
       \A w \in Added : Len(w) > 3

LongerDerivativeLeftOut ==
  /\ fn_op = "common_morphemes"
  /\ Added # {}
  /\ \E w \in Candidates \ Added : Len(w) > 3 /\ \E cw \in TopN : IsPrefix(cw, w)

PhraseFold ==
  variant = "PhraseDFA" /\ last.op \in {"transition_all", "add_phrase"}

SuccessOnlyWhereInputEnds ==
  (last.op \in {"add_word", "add_word_pair"} /\ ~last.raised /\ ~last.stuck) =>
    \A k \in DOMAIN last.marked : last.marked[k] = last.ret

(* C29: PhraseDFA.transition_all terminates: the restart loop never runs   *)
(* out of its repetition budget, and one fold consumes any single token at *)
(* most three times.                                                       *)
PhraseFoldTerminates ==
  /\ ~last.stuck
  /\ (variant = "PhraseDFA" /\ last.op = "transition_all") =>
       \A i \in 1..Len(last.word) :
          Cardinality({k \in DOMAIN last.steps : last.steps[k].i = i}) <= 3

TokenConsumedThreeTimes ==
  /\ variant = "PhraseDFA"
  /\ last.op = "transition_all"
  /\ ~last.stuck
  /\ \E i \in 1..Len(last.word) :
        Cardinality({k \in DOMAIN last.steps : last.steps[k].i = i}) = 3

(* C25: when compress_etymologies returns, every word's list is atomic: no *)
(* constituent left in a compressed list is itself a key of the etymology  *)
(* map.                                                                    *)
CompressedListsAreAtomic ==
  pc = "done" =>
    \A word \in DOMAIN compressed :
       \A i \in DOMAIN compressed[word] : compressed[word][i] \notin DOMAIN etymologies

(* C24: the parser objects of one process share one in-memory instance of  *)
(* each JSON cache, so an entry that was added and refreshed to the file   *)
(* is never dropped from the file by a later refresh.                      *)
RefreshNeverDropsFileEntries ==
  [][\A word \in DOMAIN ipas_json :
        /\ word \in DOMAIN ipas_json'
        /\ Range(ipas_json[word]) \subseteq Range(ipas_json'[word])]_vars

(* C26: find_phoneme_dict uses the whole-word or single-syllable alignment *)
(* whenever the word and the IPA have equal syllable counts (any count);   *)
(* otherwise it aligns position by position exactly when the word has as   *)
(* many letters as the IPA has phonemes and every phoneme is one symbol,   *)
(* and runs the hard-syllable alignment when not.                          *)
OneToOne ==
  /\ Len(fn_in.word) = Len(fn_in.ipa_phonemes)
  /\ \A i \in DOMAIN fn_in.ipa_phonemes : Len(fn_in.ipa_phonemes[i]) = 1

GatedStrategy == IF OneToOne THEN "positional" ELSE "find_hard_word_phonemes"

SyllableStrategy ==
  IF Len(fn_in.ipa_phonemes) = 1 THEN "add_phoneme_entry" ELSE "find_word_phonemes"

StrategyByEqualSyllableCounts ==
  fn_op = "find_phoneme_dict" =>
    fn_out = IF fn_in.word_syllables = fn_in.ipa_syllables
             THEN SyllableStrategy ELSE GatedStrategy

(* C26 (amended): the whole-word or single-syllable alignment is used      *)
(* exactly when the word and the IPA both have one syllable; in every      *)
(* other case, equal counts above one included, is_difficult gates between *)
(* the positional and the hard-syllable alignment.                         *)
StrategyBySingleSyllable ==
  fn_op = "find_phoneme_dict" =>
    fn_out = IF fn_in.word_syllables = 1 /\ fn_in.ipa_syllables = 1
             THEN SyllableStrategy ELSE GatedStrategy

TwoSyllablesAlignedByPosition ==
  /\ fn_op = "find_phoneme_dict"
  /\ fn_in.word_syllables = 2
  /\ fn_in.ipa_syllables = 2
  /\ fn_out = "positional"

(* C27: when a batch of words is turned into the shared phoneme            *)
(* dictionary, no entry of a word with a higher difficulty score is        *)
(* written to the parser's dictionary before the entries of every word     *)
(* with a lower score have been written.                                   *)
FirstWritten(word) ==
  CHOOSE k \in DOMAIN written : written[k] = word /\ \A j \in 1..(k - 1) : written[j] # word

EasyWordsWrittenFirst ==
  fn_op = "ipa_words_phonemes" =>
    \A easy, hard \in Range(ipa_words) :
       get_difficulty(easy) < get_difficulty(hard) =>
          FirstWritten(easy.word) < FirstWritten(hard.word)

(* C28: while a table is resolved to a grid, a (row, col) coordinate       *)
(* already filled by an earlier cell is never overwritten by a later cell, *)
(* spanning cells included.                                                *)
FilledCoordinatesKept ==
  fn_op = "table_dict" => fn_out.overwritten = {}

(* C30: strip_affixes terminates for every word and every morpheme set     *)
(* (its loop makes at most one pass per character), and the morphemes it   *)
(* returns, concatenated in order, equal the input word.                   *)
StripAffixesRebuildsWord ==
  fn_op = "strip_affixes" =>
    /\ ~fn_out.stuck
    /\ fn_out.iterations <= Len(fn_in.word)
    /\ Concat(fn_out.ret) = fn_in.word

AffixStrippedAfterKnownBuffer ==
  /\ fn_op = "strip_affixes"
  /\ Len(fn_out.ret) >= 2
  /\ fn_out.iterations < Len(fn_in.word)

====
